---- MODULE Spec2Model ----
(***************************************************************************)
(* A model of the point-in-time statistics, evaluation-split and ATS       *)
(* settlement code of the NFL prediction scripts under src/training.       *)
(*                                                                         *)
(* Each script is a batch computation over an in-memory list of games.     *)
(* The scripts do not run together: every specification below starts one   *)
(* of them on an input drawn from a bounded set and steps through it.      *)
(*                                                                         *)
(* Numbers.  Win percentages and averages are Python floats obtained by    *)
(* one division of two small integers; they are modelled as reduced        *)
(* fractions <<num, den>>, and two such floats are equal exactly when the  *)
(* reduced fractions are.  Spreads, lines and predictions are modelled in  *)
(* quarter points (the integer 4 * value), so that the half-point push     *)
(* tolerance is the integer 2.                                             *)
(***************************************************************************)
EXTENDS Integers, Sequences, FiniteSets, TLC

VARIABLES
    pc,             \* position of the running script
    \* ---- calculate_true_splits.calculate_splits_and_streaks
    all_games,      \* the argument all_games (also the game list of the stats functions)
    sorted_games,   \* sorted(all_games, key=date)
    i,              \* number of games of sorted_games already processed
    team_history,   \* team id -> counters, streak, last_result
    game_splits,    \* gameId -> splits recorded before the game
    \* ---- calculate_team_stats_historical / fetch_team_stats
    team_name,      \* the team argument (name or abbreviation)
    season,         \* the season argument
    week,           \* the week argument
    hist_stats,     \* result of calculate_team_stats_historical
    fetch_stats,    \* result of fetch_team_stats
    \* ---- the ATS settlement loops
    scorer,         \* the script whose settlement loop runs
    n_read,         \* number of rows the loop has read
    pred,           \* the row read last (pred / game / result in the loops)
    wins,           \* wins, ats_wins, total_wins, correct_ats
    losses,         \* losses, ats_losses, total_losses
    pushes,         \* pushes, ats_pushes, total_pushes
    matched,        \* calculate_ats_performance.py: rows with a Vegas spread
    total_bets,     \* train_model: bets placed; elsewhere set after the loop
    units_won,      \* train_model: units won, in tenths of a unit
    report,         \* the aggregates computed after the loop
    \* ---- the evaluation scripts and train_model's split
    script,         \* the evaluation script that runs
    df,             \* the games the script splits (DataFrame or list)
    loop_pos,       \* position of the loop in the list of test seasons
    fit_calls,      \* the calls of model.fit so far, with the test set of each
    X_train,        \* temporal_train_test_split: the training rows returned
    X_test,         \* temporal_train_test_split: the test rows returned
    \* ---- enrich_with_epa.EPAEnricher
    pbp_data,       \* self.pbp_data: the play-by-play rows loaded last
    team_cache,     \* self.team_cache: cache key -> metrics
    epa_metrics,    \* the value calculate_team_epa_metrics returned last
    advanced_metrics,   \* game['advanced_metrics'] of the game enriched last
    epa_calls,      \* number of calls made on the EPAEnricher so far
    \* ---- the feature builders
    data_point,     \* the game dict the builders read
    train_record,   \* the record create_features_dataframe appended
    X_row,          \* the row of X prepare_training_data returned
    features,       \* the list MLPredictor._extract_features returned
    wf_row,         \* the record walk_forward_validation appended
    \* ---- the walk-forward backtests
    model,          \* the model the script predicts with
    all_predictions,    \* all_predictions of the script
    results_by_season,  \* results_by_season / all_results: season -> record
    overall_ats,    \* the record of calculate_ats_performance(all_predictions)
    \* ---- backtest_confidence and predict_with_confidence
    test_games,     \* test_games: the games the confidence backtest goes over
    confidence_thresholds,  \* the list of thresholds handed to the backtest
    threshold_pos,  \* position of the loop in confidence_thresholds
    conf_results,   \* results of backtest_with_confidence: threshold -> record
    recommendations,    \* what predict_multiple_games returned, with its threshold
    \* ---- enrich_with_odds
    espn_game,      \* the ESPN game handed to GameMatcher.find_match
    odds_events,    \* the Odds API events handed to find_match
    event_id        \* what find_match returned

splitsVars == <<sorted_games, i, team_history, game_splits>>
statsVars  == <<team_name, season, week, hist_stats, fetch_stats>>
atsVars    == <<scorer, n_read, pred, wins, losses, pushes, matched, total_bets,
                units_won, report>>
evalVars   == <<script, df, loop_pos, fit_calls, X_train, X_test>>
epaVars    == <<pbp_data, team_cache, epa_metrics, advanced_metrics,
                epa_calls>>
featVars   == <<data_point, train_record, X_row, features, wf_row>>
backtestVars == <<model, all_predictions, results_by_season, overall_ats>>
confVars == <<test_games, confidence_thresholds, threshold_pos, conf_results,
              recommendations>>
oddsVars == <<espn_game, odds_events, event_id>>
vars == <<pc, all_games, splitsVars, statsVars, atsVars, evalVars, epaVars,
         featVars, backtestVars, confVars, oddsVars>>

----------------------------------------------------------------------------
(* Generic helpers *)

Teams == {"Dallas Cowboys", "New York Giants", "Philadelphia Eagles"}

None == "None"

Range(s) == {s[k] : k \in 1..Len(s)}

SeqsUpTo(S, n) == UNION {[1..m -> S] : m \in 0..n}

\* The elements of a set of numbers in increasing order.
RECURSIVE Ascending(_)
Ascending(S) ==
    IF S = {} THEN <<>>
    ELSE LET m == CHOOSE x \in S : \A y \in S : x <= y
         IN  <<m>> \o Ascending(S \ {m})

Abs(x) == IF x < 0 THEN -x ELSE x

RECURSIVE Gcd(_, _)
Gcd(a, b) == IF b = 0 THEN a ELSE Gcd(b, a % b)

\* The float n / d of two integers with d > 0, as a reduced fraction.
Div(n, d) ==
    LET g == Gcd(Abs(n), d)
    IN  <<n \div g, d \div g>>

Half == <<1, 2>>

RECURSIVE SumSeq(_)
SumSeq(s) == IF s = <<>> THEN 0 ELSE Head(s) + SumSeq(Tail(s))

\* (season, week) strictly before (s, w) in lexicographic order.
LexBefore(g, s, w) == g.season < s \/ (g.season = s /\ g.week < w)

----------------------------------------------------------------------------
(* calculate_true_splits.py *)

\* Bound on the number of games given to calculate_splits_and_streaks.
MaxGames == 2

\* Kick-off times: the sort key 'date' (an ISO timestamp, here its rank)
\* with the season and week it falls in.  Two kick-offs share week 1 of 2024.
Kickoffs ==
    { [season |-> 2023, week |-> 2, date |-> 1],
      [season |-> 2024, week |-> 1, date |-> 2],
      [season |-> 2024, week |-> 1, date |-> 3] }

\* Final scores <<home, away>>: a home win, an away win and a tie.
ScorePairs == { <<1, 0>>, <<0, 1>>, <<1, 1>> }

\* The home and the away team of a game differ.
Matchups == {m \in Teams \X Teams : m[1] # m[2]}

SplitGames ==
    { [season |-> k.season, week |-> k.week, date |-> k.date,
       home |-> m[1], away |-> m[2], homeScore |-> sc[1], awayScore |-> sc[2]] :
        k \in Kickoffs, m \in Matchups, sc \in ScorePairs }

\* A game with its gameId (its position in the input file).
WithId(g, id) ==
    [gameId |-> id, season |-> g.season, week |-> g.week, date |-> g.date,
     home |-> g.home, away |-> g.away,
     homeScore |-> g.homeScore, awayScore |-> g.awayScore]

\* Python's stable sorted(): g goes after every element whose key is <= its own.
RECURSIVE InsertByDate(_, _)
InsertByDate(s, g) ==
    IF s = <<>> THEN <<g>>
    ELSE IF Head(s).date <= g.date THEN <<Head(s)>> \o InsertByDate(Tail(s), g)
    ELSE <<g>> \o s

RECURSIVE SortedByDate(_)
SortedByDate(games) ==
    IF games = <<>> THEN <<>>
    ELSE InsertByDate(SortedByDate(SubSeq(games, 1, Len(games) - 1)),
                      games[Len(games)])

\* A plausible defect: the games are processed in file order.
UnsortedGames(games) == games

SortedGames(games) == SortedByDate(games)

NewTeam ==
    [home_wins |-> 0, home_losses |-> 0, road_wins |-> 0, road_losses |-> 0,
     streak |-> 0, last_result |-> None]

NewHistory == [t \in Teams |-> NewTeam]

\* A plausible defect: a team without games is given 0 instead of 0.5.
WinPctOrZero(w, l) ==
    IF w + l > 0 THEN Div(w, w + l) ELSE <<0, 1>>

\* Lines 56-60, 66 and 70: wins / games if games > 0 else 0.5.
WinPctOr(w, l) ==
    IF w + l > 0 THEN Div(w, w + l) ELSE Half

\* The entry stored in game_splits for one side of a game.
TeamSplits(t) ==
    [homeWinPct |-> WinPctOr(t.home_wins, t.home_losses),
     roadWinPct |-> WinPctOr(t.road_wins, t.road_losses),
     streak |-> t.streak]

SplitsBefore(th, game) ==
    [homeTeam |-> TeamSplits(th[game.home]),
     awayTeam |-> TeamSplits(th[game.away])]

\* A plausible defect: a win after a loss continues the count.
WonNoReset(t) ==
    [t EXCEPT !.streak = t.streak + 1, !.last_result = "W"]

Won(t) ==
    [t EXCEPT !.streak = IF t.last_result = "W" THEN t.streak + 1 ELSE 1,
              !.last_result = "W"]

\* A plausible defect: a loss does not record last_result.
LostKeepsResult(t) ==
    [t EXCEPT !.streak = IF t.last_result = "L" THEN t.streak - 1 ELSE -1]

Lost(t) ==
    [t EXCEPT !.streak = IF t.last_result = "L" THEN t.streak - 1 ELSE -1,
              !.last_result = "L"]

\* A plausible defect: a home game is booked on the road counters.
UpdateHomeOnRoadCounters(t, home_won) ==
    IF home_won THEN Won([t EXCEPT !.road_wins = @ + 1])
    ELSE Lost([t EXCEPT !.road_losses = @ + 1])

UpdateHome(t, home_won) ==
    IF home_won THEN Won([t EXCEPT !.home_wins = @ + 1])
    ELSE Lost([t EXCEPT !.home_losses = @ + 1])

UpdateAway(t, home_won) ==
    IF ~home_won THEN Won([t EXCEPT !.road_wins = @ + 1])
    ELSE Lost([t EXCEPT !.road_losses = @ + 1])

\* A plausible defect: a tie is credited to the home team.
UpdateHistoryTieToHome(th, game) ==
    LET home_won == game.homeScore >= game.awayScore
        th1 == [th EXCEPT ![game.home] = UpdateHome(@, home_won)]
    IN  [th1 EXCEPT ![game.away] = UpdateAway(@, home_won)]

\* The history after a game: the home team's entry is updated, then the
\* away team's.
UpdateHistory(th, game) ==
    LET home_won == game.homeScore > game.awayScore
        th1 == [th EXCEPT ![game.home] = UpdateHome(@, home_won)]
    IN  [th1 EXCEPT ![game.away] = UpdateAway(@, home_won)]

\* The loop of calculate_splits_and_streaks from game k + 1 on.
RECURSIVE SplitsLoop(_, _, _, _)
SplitsLoop(sorted, k, th, gs) ==
    IF k >= Len(sorted) THEN gs
    ELSE LET game == sorted[k + 1]
         IN  SplitsLoop(sorted, k + 1, UpdateHistory(th, game),
                        (game.gameId :> SplitsBefore(th, game)) @@ gs)

\* The whole function, as a value.
calculate_splits_and_streaks(games) ==
    SplitsLoop(SortedGames(games), 0, NewHistory, <<>>)

----------------------------------------------------------------------------
(* backtest_historical.calculate_team_stats_historical and                 *)
(* predict_2025_season.fetch_team_stats                                    *)

\* Bound on the number of games given to the two statistics functions.
MaxStatGames == 2

\* (season, week) of the games; week 2 of 2023 precedes week 1 of 2024.
StatSlots == { <<2023, 1>>, <<2023, 2>>, <<2024, 1>> }

\* Dallas at home, Dallas away, Dallas not playing; Philadelphia plays away
\* or not at all.
StatMatchups ==
    {<<"Dallas Cowboys", "New York Giants">>,
     <<"New York Giants", "Dallas Cowboys">>,
     <<"New York Giants", "Philadelphia Eagles">>}

\* A settled home win, a settled away win, and a game not played yet
\* (the schedule feed gives such a game the score 0-0, completed = false).
StatOutcomes ==
    { [homeScore |-> 2, awayScore |-> 0, completed |-> TRUE],
      [homeScore |-> 0, awayScore |-> 1, completed |-> TRUE],
      [homeScore |-> 0, awayScore |-> 0, completed |-> FALSE] }

StatGames ==
    { [season |-> sl[1], week |-> sl[2], home |-> m[1], away |-> m[2],
       homeScore |-> o.homeScore, awayScore |-> o.awayScore,
       completed |-> o.completed] :
        sl \in StatSlots, m \in StatMatchups, o \in StatOutcomes }

CutoffSeasons == {2023, 2024}
CutoffWeeks == {1, 2}

Played(g, team) == g.home = team \/ g.away = team

\* outcome.homeWon as the data file stores it.
HomeWon(g) == g.homeScore > g.awayScore

\* An integer (or a float holding one) as a fraction.
Num(n) == <<n, 1>>

\* The if/else at lines 72-81 (and 148-155 of predict_2025_season.py).
PointsFor(g, team) == IF g.home = team THEN g.homeScore ELSE g.awayScore
PointsAgainst(g, team) == IF g.home = team THEN g.awayScore ELSE g.homeScore

\* s[-3:] if len(s) >= 3 else s, then padded with pad while shorter than 3.
RECURSIVE PadTo3(_, _)
PadTo3(s, pad) == IF Len(s) >= 3 THEN s ELSE PadTo3(Append(s, pad), pad)

\* A plausible defect: short lists are padded with the league default.
Last3LeaguePad(s, pad) ==
    IF Len(s) >= 3 THEN SubSeq(s, Len(s) - 2, Len(s)) ELSE PadTo3(s, Num(22))

Last3(s, pad) ==
    IF Len(s) >= 3 THEN SubSeq(s, Len(s) - 2, Len(s)) ELSE PadTo3(s, pad)

\* A plausible defect: the cutoff week itself is taken in.
hist_team_games_inclusive(team, s, w, games) ==
    SelectSeq(games, LAMBDA g : g.season = s /\ g.week <= w /\ Played(g, team))

\* Lines 44-48 of backtest_historical.py.
hist_team_games(team, s, w, games) ==
    SelectSeq(games, LAMBDA g : g.season = s /\ g.week < w /\ Played(g, team))

\* Lines 65-88: the loop over team_games from game k + 1 on.
RECURSIVE hist_loop(_, _, _, _)
hist_loop(team, team_games, k, acc) ==
    IF k >= Len(team_games) THEN acc
    ELSE LET game == team_games[k + 1]
             is_home == game.home = team
             pf == PointsFor(game, team)
             pa == PointsAgainst(game, team)
             won == IF is_home THEN HomeWon(game) ELSE ~HomeWon(game)
         IN  hist_loop(team, team_games, k + 1,
                 [wins |-> acc.wins + (IF won THEN 1 ELSE 0),
                  total_pf |-> acc.total_pf + pf,
                  total_pa |-> acc.total_pa + pa,
                  scores_for |-> Append(acc.scores_for, Num(pf)),
                  scores_against |-> Append(acc.scores_against, Num(pa))])

NoGames ==
    [wins |-> 0, total_pf |-> 0, total_pa |-> 0,
     scores_for |-> <<>>, scores_against |-> <<>>]

\* A plausible defect: the default snapshot comes without the last-3 lists.
hist_defaults_without_last3 ==
    [winPct |-> Half, ppg |-> Num(22), pag |-> Num(22),
     yardsPerGame |-> Num(350), yardsAllowedPerGame |-> Num(350),
     turnoverDiff |-> Num(0), restDays |-> Num(7)]

\* Lines 51-62.
hist_defaults ==
    [winPct |-> Half, ppg |-> Num(22), pag |-> Num(22),
     yardsPerGame |-> Num(350), yardsAllowedPerGame |-> Num(350),
     turnoverDiff |-> Num(0), restDays |-> Num(7),
     last3_pf |-> <<Num(22), Num(22), Num(22)>>,
     last3_pa |-> <<Num(22), Num(22), Num(22)>>]

\* Lines 38-112.
calculate_team_stats_historical(team, s, w, games) ==
    LET team_games == hist_team_games(team, s, w, games)
        acc == hist_loop(team, team_games, 0, NoGames)
        games_played == Len(team_games)
    IN  IF team_games = <<>> THEN hist_defaults
        ELSE [winPct |-> Div(acc.wins, games_played),
              ppg |-> Div(acc.total_pf, games_played),
              pag |-> Div(acc.total_pa, games_played),
              yardsPerGame |-> Num(350), yardsAllowedPerGame |-> Num(350),
              turnoverDiff |-> Num(0), restDays |-> Num(7),
              last3_pf |-> Last3(acc.scores_for, Div(acc.total_pf, games_played)),
              last3_pa |-> Last3(acc.scores_against, Div(acc.total_pa, games_played))]

\* A plausible defect: games not completed are taken in.
fetch_team_games_unfinished(team, s, w, games) ==
    SelectSeq(games, LAMBDA g : g.week < w /\ Played(g, team))

\* Lines 118-122 of predict_2025_season.py; the season argument is not read.
fetch_team_games(team, s, w, games) ==
    SelectSeq(games, LAMBDA g : g.week < w /\ g.completed /\ Played(g, team))

\* Lines 147-165: the loop over team_games from game k + 1 on.
RECURSIVE fetch_loop(_, _, _, _)
fetch_loop(team, team_games, k, acc) ==
    IF k >= Len(team_games) THEN acc
    ELSE LET game == team_games[k + 1]
             team_score == PointsFor(game, team)
             opp_score == PointsAgainst(game, team)
         IN  fetch_loop(team, team_games, k + 1,
                 [wins |-> acc.wins + (IF team_score > opp_score THEN 1 ELSE 0),
                  total_pf |-> acc.total_pf + team_score,
                  total_pa |-> acc.total_pa + opp_score,
                  scores_for |-> Append(acc.scores_for, Num(team_score)),
                  scores_against |-> Append(acc.scores_against, Num(opp_score))])

\* Lines 125-138.
fetch_defaults ==
    [winPct |-> Half, ppg |-> Num(22), pag |-> Num(22),
     yardsPerGame |-> Num(350), yardsAllowedPerGame |-> Num(350),
     turnoverDiff |-> Num(0), restDays |-> Num(7),
     last3Games |-> [pointsScored |-> <<Num(22), Num(22), Num(22)>>,
                     pointsAllowed |-> <<Num(22), Num(22), Num(22)>>]]

\* Lines 110-195.
fetch_team_stats(team, s, w, games) ==
    LET team_games == fetch_team_games(team, s, w, games)
        acc == fetch_loop(team, team_games, 0, NoGames)
        games_played == Len(team_games)
        ppg == Div(acc.total_pf, games_played)
        pag == Div(acc.total_pa, games_played)
    IN  IF team_games = <<>> THEN fetch_defaults
        ELSE [winPct |-> Div(acc.wins, games_played),
              ppg |-> ppg, pag |-> pag,
              yardsPerGame |-> Num(350), yardsAllowedPerGame |-> Num(350),
              turnoverDiff |-> Num(0), restDays |-> Num(7),
              last3Games |-> [pointsScored |-> Last3(acc.scores_for, ppg),
                              pointsAllowed |-> Last3(acc.scores_against, pag)]]

\* The state of the other script while one script runs.
StatsIdle ==
    /\ team_name = None /\ season = 0 /\ week = 0
    /\ hist_stats = None /\ fetch_stats = None

----------------------------------------------------------------------------
(* The ATS settlement loops and their aggregates.  All spreads are in      *)
(* quarter points.                                                         *)

\* Bound on the number of rows a settlement loop reads.
MaxPreds == 2

\* Bound on the absolute value of a spread, line or prediction (quarter points).
MaxQuarter == 2

\* 0.5 points, in quarter points.
PushTolerance == 2

Quarters == (-MaxQuarter)..MaxQuarter

\* A prediction with the line and the result of its game.  has_line: the game
\* has a 'lines' entry (a Vegas spread); completed: the game has been played.
\* A game without a line has no Vegas spread and a game that has not been
\* played has no actual spread: the fields are 0 then and are not read.
AtsRows ==
    {r \in [predicted_spread : Quarters, vegas_spread : Quarters,
            actual_spread : Quarters, has_line : BOOLEAN, completed : BOOLEAN] :
        /\ ~r.has_line => r.vegas_spread = 0
        /\ ~r.completed => r.actual_spread = 0}

\* The rows of the scripts that are handed settled predictions with a line.
LinedRows == {r \in AtsRows : r.has_line /\ r.completed}

\* The rows of the scripts that go over settled games, with or without a line.
GameRows == {r \in AtsRows : r.completed}

Sign(x) == IF x > 0 THEN 1 ELSE IF x < 0 THEN -1 ELSE 0

\* walk_forward_validation.calculate_ats_performance, lines 139-150.
settle_wf(r) ==
    LET model_takes_home == r.predicted_spread > r.vegas_spread
        home_covered == r.actual_spread > r.vegas_spread
    IN  IF Abs(r.actual_spread - r.vegas_spread) < PushTolerance THEN "PUSH"
        ELSE IF model_takes_home = home_covered THEN "WIN"
        ELSE "LOSS"

\* backtest_historical.calculate_ats_performance, lines 245-260.
settle_bh(r) ==
    LET model_takes_home == r.predicted_spread > r.vegas_spread
        home_covered == r.actual_spread > r.vegas_spread
    IN  IF Abs(r.actual_spread - r.vegas_spread) < PushTolerance THEN "PUSH"
        ELSE IF model_takes_home = home_covered THEN "WIN"
        ELSE "LOSS"

\* calculate_ats_performance.py, lines 49-88.
settle_cap(r) ==
    LET model_home_cover == r.predicted_spread > r.vegas_spread
        actual_home_cover == r.actual_spread > r.vegas_spread
    IN  IF ~r.completed THEN "SKIP"
        ELSE IF ~r.has_line THEN "SKIP"
        ELSE IF Abs(r.actual_spread - r.vegas_spread) < PushTolerance THEN "PUSH"
        ELSE IF model_home_cover = actual_home_cover THEN "WIN"
        ELSE "LOSS"

\* A plausible defect: a game that lands exactly half a point off the line
\* is settled as a push too.
settle_fix_wide(r) ==
    IF Abs(r.actual_spread - r.vegas_spread) <= PushTolerance THEN "PUSH"
    ELSE IF (r.predicted_spread - r.vegas_spread)
            * (r.actual_spread - r.vegas_spread) > 0 THEN "WIN"
    ELSE "LOSS"

\* fix_ats_calculation, lines 26-47.
settle_fix(r) ==
    IF Abs(r.actual_spread - r.vegas_spread) < PushTolerance THEN "PUSH"
    ELSE IF (r.predicted_spread - r.vegas_spread)
            * (r.actual_spread - r.vegas_spread) > 0 THEN "WIN"
    ELSE "LOSS"

\* test_true_splits.calculate_ats, lines 108-122.
settle_tts(r) ==
    IF ~r.has_line THEN "SKIP"
    ELSE IF Abs(r.actual_spread - r.vegas_spread) < PushTolerance THEN "PUSH"
    ELSE IF (r.predicted_spread - r.vegas_spread)
            * (r.actual_spread - r.vegas_spread) > 0 THEN "WIN"
    ELSE "LOSS"

\* add_totals_to_analysis, lines 54-79: the over/under settlement; the row
\* holds the predicted, the Vegas and the actual total.
settle_totals(r) ==
    IF ~r.has_line THEN "SKIP"
    ELSE IF Abs(r.actual_spread - r.vegas_spread) < PushTolerance THEN "PUSH"
    ELSE IF (r.predicted_spread - r.vegas_spread)
            * (r.actual_spread - r.vegas_spread) > 0 THEN "WIN"
    ELSE "LOSS"

\* train_model.create_features_dataframe, lines 178-184: the spread_line
\* column; a game without lines gets 0.
spread_line(r) == IF r.has_line THEN r.vegas_spread ELSE 0

\* train_model.calculate_ats_metrics, lines 417-446.
settle_tm(r) ==
    LET line == spread_line(r)
        our_pick == IF r.predicted_spread > line THEN "home" ELSE "away"
        home_covered == r.actual_spread > line
        away_covered == r.actual_spread < line
        push == Abs(r.actual_spread - line) < PushTolerance
    IN  IF line = 0 THEN "SKIP"
        ELSE IF push THEN "PUSH"
        ELSE IF our_pick = "home" /\ home_covered THEN "WIN"
        ELSE IF our_pick = "away" /\ away_covered THEN "WIN"
        ELSE "LOSS"

\* A plausible defect: a record without bets reports the 0.5 default of the
\* win percentages.
IfBetsElseHalf(bets, x) == IF bets > 0 THEN x ELSE Half

\* x if there are bets, else the integer 0 of the conditional expressions.
IfBets(bets, x) == IF bets > 0 THEN x ELSE Num(0)

\* walk_forward_validation.calculate_ats_performance, lines 152-168.
wf_report(w, l, p) ==
    LET bets == w + l
        profit == (w * 100) - (l * 110)
        total_wagered == bets * 110
    IN  [wins |-> w, losses |-> l, pushes |-> p, total_bets |-> bets,
         win_rate |-> IfBets(bets, Div(w * 100, bets)),
         roi |-> IfBets(total_wagered, Div(profit * 100, total_wagered)),
         profit |-> profit]

\* backtest_historical.calculate_ats_performance, lines 262-278.
bh_report(w, l, p) ==
    LET bets == w + l
        profit == (w * 100) - (l * 110)
        total_wagered == bets * 110
    IN  [wins |-> w, losses |-> l, pushes |-> p, total_bets |-> bets,
         win_rate |-> IfBets(bets, Div(w * 100, bets)),
         roi |-> IfBets(total_wagered, Div(profit * 100, total_wagered)),
         profit |-> profit]

\* A plausible defect: the pushes are counted in the denominator.
cap_report_with_pushes(w, l, p) ==
    LET bets == w + l + p
        profit == (w * 100) - (l * 110)
    IN  [wins |-> w, losses |-> l, pushes |-> p, total_bets |-> bets,
         win_rate |-> IfBets(bets, Div(w * 100, bets)),
         roi |-> IfBets(bets, Div(profit * 100, bets * 110)),
         profit |-> profit]

\* calculate_ats_performance.py, lines 102-114: total_bets counts the pushes,
\* the rates do not.
cap_report(w, l, p) ==
    LET total_wagered == (w + l) * 110
        profit == (w * 100) - (l * 110)
    IN  [wins |-> w, losses |-> l, pushes |-> p, total_bets |-> w + l + p,
         win_rate |-> IfBets(w + l, Div(w * 100, w + l)),
         roi |-> IfBets(total_wagered, Div(profit * 100, total_wagered)),
         profit |-> profit]

\* fix_ats_calculation, lines 67-73.
fix_report(w, l, p) ==
    LET bets == w + l
        profit == (w * 100) - (l * 110)
        total_wagered == bets * 110
    IN  [wins |-> w, losses |-> l, pushes |-> p, total_bets |-> bets,
         win_rate |-> IfBets(bets, Div(w * 100, bets)),
         roi |-> IfBets(total_wagered, Div(profit * 100, total_wagered)),
         profit |-> profit]

\* test_true_splits.calculate_ats, lines 124-136.
tts_report(w, l, p) ==
    LET bets == w + l
        profit == (w * 100) - (l * 110)
    IN  [wins |-> w, losses |-> l, pushes |-> p,
         win_rate |-> IfBets(bets, Div(w * 100, bets)),
         roi |-> IfBets(bets, Div(profit * 100, bets * 110)),
         profit |-> profit]

\* add_totals_to_analysis, lines 108-112.
totals_report(w, l, p) ==
    LET bets == w + l
        ou_profit == (w * 100) - (l * 110)
    IN  [wins |-> w, losses |-> l, pushes |-> p, total_bets |-> bets,
         win_rate |-> IfBets(bets, Div(w * 100, bets)),
         roi |-> IfBets(bets, Div(ou_profit * 100, bets * 110)),
         profit |-> ou_profit]

\* train_model.calculate_ats_metrics, lines 448-453: nothing is reported
\* without a bet; units_won is in tenths of a unit, so
\* units_won / (total_bets * 1.1) * 100 = (u / 10) / (bets * 11 / 10) * 100.
tm_report(correct_ats, bets, u) ==
    IF bets = 0 THEN None
    ELSE [correct_ats |-> correct_ats, total_bets |-> bets, units_won |-> u,
          ats_accuracy |-> Div(correct_ats, bets),
          roi |-> Div(u * 100, bets * 11)]

----------------------------------------------------------------------------
(* The evaluation scripts: how each one splits the games into the set the  *)
(* model is fitted on and the set it is tested on.                         *)

\* Bound on the number of games in the data file of an evaluation script.
MaxEvalGames == 4

EvalSeasons == {2021, 2022, 2023, 2024}

\* A game of the data file: its season and whether it has a 'lines' entry.
EvalGames == [season : EvalSeasons, has_lines : BOOLEAN]

EvalWithId(g, id) == [gameId |-> id, season |-> g.season, has_lines |-> g.has_lines]

\* walk_forward_validation.prepare_training_data, lines 38-40: a game
\* without lines is skipped.
prepare_training_data(games) == SelectSeq(games, LAMBDA g : g.has_lines)

\* walk_forward_validate, line 199.
test_seasons == <<2022, 2023, 2024>>

\* A plausible defect: the games of the test season are trained on too.
wf_train_data_through(frame, test_season) ==
    {g \in Range(frame) : g.season <= test_season}

\* walk_forward_validate, line 206.
wf_train_data(frame, test_season) ==
    {g \in Range(frame) : g.season < test_season}

\* walk_forward_validate, line 207.
wf_test_data(frame, test_season) ==
    {g \in Range(frame) : g.season = test_season}

RECURSIVE SortedSeq(_)
SortedSeq(S) ==
    IF S = {} THEN <<>>
    ELSE LET m == CHOOSE x \in S : \A y \in S : x <= y
         IN  <<m>> \o SortedSeq(S \ {m})

\* season_by_season_performance, lines 19-31: sorted(seasons.keys()).
sbs_test_seasons(games) == SortedSeq({g.season : g \in Range(games)})

\* season_by_season_performance, lines 38-43.
sbs_train_games(games, test_season) ==
    {g \in Range(games) : g.season # test_season}

sbs_test_games(games, test_season) ==
    {g \in Range(games) : g.season = test_season}

\* fresh_validation, lines 26-33, and test_true_splits.compare_models,
\* lines 142-143.
holdout_train_games(games) ==
    {g \in Range(games) : g.season \in {2021, 2022, 2023}}

holdout_test_games(games) ==
    {g \in Range(games) : g.season = 2024}

FitCall(ts, train, test) == [test_season |-> ts, train |-> train, test |-> test]

----------------------------------------------------------------------------
(* train_model.temporal_train_test_split *)

\* Bound on the number of rows of the DataFrame that is split.
MaxRows == 4

SplitSlots == {<<2021, 1>>, <<2021, 2>>, <<2022, 1>>}

SplitRow(slot, id) == [gameId |-> id, season |-> slot[1], week |-> slot[2]]

RowBefore(a, b) ==
    \/ a.season < b.season
    \/ a.season = b.season /\ a.week < b.week

RECURSIVE InsertBySeasonWeek(_, _)
InsertBySeasonWeek(s, g) ==
    IF s = <<>> THEN <<g>>
    ELSE IF RowBefore(g, Head(s)) THEN <<g>> \o s
    ELSE <<Head(s)>> \o InsertBySeasonWeek(Tail(s), g)

\* df.sort_values(['season', 'week']).  The order of rows with equal keys
\* does not reach the result: only the index of the frame is read below.
RECURSIVE sort_values(_)
sort_values(frame) ==
    IF frame = <<>> THEN <<>>
    ELSE InsertBySeasonWeek(sort_values(SubSeq(frame, 1, Len(frame) - 1)),
                            frame[Len(frame)])

\* .reset_index(drop=True) followed by .index: the labels 0..n-1 of the
\* sorted frame, here the positions 1..n.
reset_index(frame) == [k \in 1..Len(frame) |-> k]

\* int(len(df_sorted) * (1 - test_size)) with test_size = 0.2.
split_idx(frame) == (Len(frame) * 8) \div 10

\* X.iloc[idx]: the rows of X at the given positions; X has the rows of df
\* in the order of df.
iloc(X, idx) == [k \in 1..Len(idx) |-> X[idx[k]]]

\* temporal_train_test_split, lines 273-292.
temporal_train_test_split(frame, X) ==
    LET df_sorted == sort_values(frame)
        index == reset_index(df_sorted)
        train_idx == SubSeq(index, 1, split_idx(df_sorted))
        test_idx == SubSeq(index, split_idx(df_sorted) + 1, Len(index))
    IN  [X_train |-> iloc(X, train_idx), X_test |-> iloc(X, test_idx)]

----------------------------------------------------------------------------
(* enrich_with_epa.EPAEnricher.calculate_home_away_records *)

\* game['outcome']['homeWon'] as the data files are written
\* (convert_2025_predictions_to_training_format.py line 100).
outcome_homeWon(g) == g.homeScore > g.awayScore

FracAdd(x, y) == Div((x[1] * y[2]) + (y[1] * x[2]), x[2] * y[2])

\* wins / len(games) if games else 0.5.
RecordPct(games, won_games) ==
    IF Len(games) > 0 THEN Div(Len(won_games), Len(games)) ELSE Half

\* Lines 160-179.
calculate_home_away_records(games, team, s, w) ==
    LET team_games == SelectSeq(games, LAMBDA g :
                          LexBefore(g, s, w) /\ (g.home = team \/ g.away = team))
        home_games == SelectSeq(team_games, LAMBDA g : g.home = team)
        away_games == SelectSeq(team_games, LAMBDA g : g.away = team)
        home_wins == SelectSeq(home_games, LAMBDA g : outcome_homeWon(g))
        away_wins == SelectSeq(away_games, LAMBDA g : ~outcome_homeWon(g))
    IN  [home_win_pct |-> RecordPct(home_games, home_wins),
         away_win_pct |-> RecordPct(away_games, away_wins)]

\* Lines 208-217: the sum of the opponents' winPct over the games from
\* position k on, 0.5 for an opponent without the key.
RECURSIVE opponent_win_pcts_sum(_, _, _)
opponent_win_pcts_sum(team_games, team, k) ==
    IF k > Len(team_games) THEN Num(0)
    ELSE LET game == team_games[k]
             opponent_win_pct ==
                 IF game.home = team
                 THEN IF game.awayWinPct = <<>> THEN Half
                      ELSE game.awayWinPct[1]
                 ELSE IF game.homeWinPct = <<>> THEN Half
                      ELSE game.homeWinPct[1]
         IN  FracAdd(opponent_win_pct,
                     opponent_win_pcts_sum(team_games, team, k + 1))

\* calculate_strength_of_schedule, lines 181-219.
calculate_strength_of_schedule(games, team, s, w) ==
    LET team_games == SelectSeq(games, LAMBDA g :
                          /\ g.season = s /\ g.week < w
                          /\ (g.home = team \/ g.away = team))
        total == opponent_win_pcts_sum(team_games, team, 1)
    IN  IF team_games = <<>> THEN Half
        ELSE Div(total[1], total[2] * Len(team_games))

----------------------------------------------------------------------------
(* The feature builders: train_model.create_features_dataframe with        *)
(* prepare_training_data, MLPredictor._extract_features and                *)
(* walk_forward_validation.prepare_training_data.                          *)
(* An optional key of a dict is a sequence: <<>> when the key is absent,   *)
(* <<v>> when it holds v.                                                  *)

\* dict.get(key, default).
Get(opt, default) == IF opt = <<>> THEN default ELSE opt[1]

FracSub(x, y) == Div((x[1] * y[2]) - (y[1] * x[2]), x[2] * y[2])

NumSeq(s) == [k \in 1..Len(s) |-> Num(s[k])]

\* 1 if flag else 0.
Flag(b) == IF b THEN Num(1) ELSE Num(0)

\* The statistics of a team as the data file holds them.
TeamStatLines ==
    { [winPct |-> Half, ppg |-> Num(22), pag |-> Num(22),
       yardsPerGame |-> Num(350), yardsAllowedPerGame |-> Num(350),
       turnoverDiff |-> Num(0)],
      [winPct |-> <<3, 4>>, ppg |-> Num(27), pag |-> Num(19),
       yardsPerGame |-> Num(380), yardsAllowedPerGame |-> Num(310),
       turnoverDiff |-> Num(2)] }

\* last3Games: absent, or score lists of 0 to 3 entries.
Last3Lists == {<<>>, <<21>>, <<21, 24>>, <<21, 24, 30>>}

Last3Options ==
    {<<>>} \cup { <<[pointsScored |-> <<NumSeq(l)>>,
                     pointsAllowed |-> <<NumSeq(l)>>]>> : l \in Last3Lists }
          \cup { <<[pointsScored |-> <<>>, pointsAllowed |-> <<>>]>> }

TeamSnapshots ==
    { [winPct |-> st.winPct, ppg |-> st.ppg, pag |-> st.pag,
       yardsPerGame |-> st.yardsPerGame,
       yardsAllowedPerGame |-> st.yardsAllowedPerGame,
       turnoverDiff |-> st.turnoverDiff,
       restDays |-> rd, last3Games |-> l3] :
        st \in TeamStatLines, rd \in {<<>>, <<Num(7)>>, <<Num(10)>>},
        l3 \in Last3Options }

Matchup ==
    [restDaysDiff : {<<>>, <<Num(0)>>, <<Num(3)>>},
     isDivisional : BOOLEAN, isConference : {TRUE},
     isThursdayNight : {<<>>, <<TRUE>>},
     isMondayNight : {<<>>}, isSundayNight : {<<FALSE>>}]

Weather ==
    [temperature : {Num(65)}, windSpeed : {Num(5)}, precipitation : {Num(0)},
     isDome : BOOLEAN]

\* advanced_metrics of one side.
AdvancedSide ==
    [epa_per_play |-> <<1, 10>>, epa_allowed_per_play |-> Num(0),
     success_rate |-> Half, explosive_rate |-> <<1, 10>>, qb_epa |-> <<1, 5>>,
     home_record_pct |-> <<3, 4>>, away_record_pct |-> <<1, 4>>,
     strength_of_schedule |-> Half]

AdvancedOptions == {<<>>, <<[home |-> AdvancedSide, away |-> AdvancedSide]>>}

FeatureGames ==
    [homeTeam : TeamSnapshots, awayTeam : TeamSnapshots, matchup : Matchup,
     weather : Weather, advanced_metrics : AdvancedOptions]

\* train_model lines 49-52 and walk_forward_validation lines 44-47:
\* sum(l3.get(key, [0])) / max(len(l3.get(key, [0])), 1).
TrainLast3Avg(l3opt, key) ==
    LET l3 == Get(l3opt, [pointsScored |-> <<>>, pointsAllowed |-> <<>>])
        l == Get(l3[key], <<Num(0)>>)
        total == SumSeq([k \in 1..Len(l) |-> l[k][1]])
    IN  Div(total, IF Len(l) > 1 THEN Len(l) ELSE 1)

\* ml_predictor lines 97-100: sum(l3.get(key, [0, 0, 0])) / 3.
PredictLast3Avg(l3opt, key) ==
    LET l3 == Get(l3opt, [pointsScored |-> <<>>, pointsAllowed |-> <<>>])
        l == Get(l3[key], <<Num(0), Num(0), Num(0)>>)
        total == SumSeq([k \in 1..Len(l) |-> l[k][1]])
    IN  Div(total, 3)

\* The 33 columns that train_model.create_features_dataframe (lines 55-106)
\* and walk_forward_validation.prepare_training_data (lines 48-98) fill the
\* same way; the weather keys are present in every game of FeatureGames, so
\* the defaults of the walk-forward reads are not used.
PhaseOneRecord(game) ==
    LET home == game.homeTeam
        away == game.awayTeam
    IN  [home_winPct |-> home.winPct,
         home_ppg |-> home.ppg,
         home_pag |-> home.pag,
         home_yards_pg |-> home.yardsPerGame,
         home_yards_allowed_pg |-> home.yardsAllowedPerGame,
         home_turnover_diff |-> home.turnoverDiff,
         away_winPct |-> away.winPct,
         away_ppg |-> away.ppg,
         away_pag |-> away.pag,
         away_yards_pg |-> away.yardsPerGame,
         away_yards_allowed_pg |-> away.yardsAllowedPerGame,
         away_turnover_diff |-> away.turnoverDiff,
         home_last3_ppf |-> TrainLast3Avg(home.last3Games, "pointsScored"),
         home_last3_ppa |-> TrainLast3Avg(home.last3Games, "pointsAllowed"),
         away_last3_ppf |-> TrainLast3Avg(away.last3Games, "pointsScored"),
         away_last3_ppa |-> TrainLast3Avg(away.last3Games, "pointsAllowed"),
         home_rest_days |-> Get(home.restDays, Num(7)),
         away_rest_days |-> Get(away.restDays, Num(7)),
         rest_days_diff |-> Get(game.matchup.restDaysDiff, Num(0)),
         ppg_differential |-> FracSub(home.ppg, away.ppg),
         pag_differential |-> FracSub(away.pag, home.pag),
         winPct_differential |-> FracSub(home.winPct, away.winPct),
         yards_differential |-> FracSub(home.yardsPerGame, away.yardsPerGame),
         turnover_differential |->
             FracSub(home.turnoverDiff, away.turnoverDiff),
         is_divisional |-> Flag(game.matchup.isDivisional),
         is_conference |-> Flag(game.matchup.isConference),
         is_thursday_night |-> Flag(Get(game.matchup.isThursdayNight, FALSE)),
         is_monday_night |-> Flag(Get(game.matchup.isMondayNight, FALSE)),
         is_sunday_night |-> Flag(Get(game.matchup.isSundayNight, FALSE)),
         temperature |-> game.weather.temperature,
         wind_speed |-> game.weather.windSpeed,
         precipitation |-> game.weather.precipitation,
         is_dome |-> Flag(game.weather.isDome)]

\* train_model lines 108-160: the EPA columns, or their defaults.
EpaColumns(game) ==
    LET present == game.advanced_metrics # <<>>
        default == [epa_per_play |-> Num(0), epa_allowed_per_play |-> Num(0),
                    success_rate |-> Half, explosive_rate |-> <<1, 10>>,
                    qb_epa |-> Num(0), home_record_pct |-> Half,
                    away_record_pct |-> Half, strength_of_schedule |-> Half]
        adv == Get(game.advanced_metrics, [home |-> default, away |-> default])
    IN  [home_epa_per_play |-> adv.home.epa_per_play,
         away_epa_per_play |-> adv.away.epa_per_play,
         home_epa_allowed |-> adv.home.epa_allowed_per_play,
         away_epa_allowed |-> adv.away.epa_allowed_per_play,
         home_success_rate |-> adv.home.success_rate,
         away_success_rate |-> adv.away.success_rate,
         home_explosive_rate |-> adv.home.explosive_rate,
         away_explosive_rate |-> adv.away.explosive_rate,
         home_qb_epa |-> adv.home.qb_epa,
         away_qb_epa |-> adv.away.qb_epa,
         home_home_record |-> adv.home.home_record_pct,
         home_away_record |-> adv.home.away_record_pct,
         away_home_record |-> adv.away.home_record_pct,
         away_away_record |-> adv.away.away_record_pct,
         home_sos |-> adv.home.strength_of_schedule,
         away_sos |-> adv.away.strength_of_schedule,
         epa_differential |->
             IF present
             THEN FracSub(adv.home.epa_per_play, adv.away.epa_per_play)
             ELSE Num(0),
         qb_epa_differential |->
             IF present THEN FracSub(adv.home.qb_epa, adv.away.qb_epa)
             ELSE Num(0),
         home_advantage_diff |->
             IF present
             THEN FracSub(adv.home.home_record_pct, adv.away.away_record_pct)
             ELSE Num(0),
         sos_differential |->
             IF present
             THEN FracSub(adv.home.strength_of_schedule,
                          adv.away.strength_of_schedule)
             ELSE Num(0),
         success_rate_diff |->
             IF present
             THEN FracSub(adv.home.success_rate, adv.away.success_rate)
             ELSE Num(0)]

\* The record create_features_dataframe appends for one game (the feature
\* columns of it).
create_features_dataframe(game) == PhaseOneRecord(game) @@ EpaColumns(game)

\* The record walk_forward_validation.prepare_training_data appends.
wf_record(game) == PhaseOneRecord(game)

\* train_model.prepare_training_data, lines 200-240.
feature_cols ==
    <<"home_winPct", "home_ppg", "home_pag", "home_yards_pg",
      "home_yards_allowed_pg", "home_turnover_diff",
      "away_winPct", "away_ppg", "away_pag", "away_yards_pg",
      "away_yards_allowed_pg", "away_turnover_diff",
      "home_last3_ppf", "home_last3_ppa", "away_last3_ppf", "away_last3_ppa",
      "home_rest_days", "away_rest_days", "rest_days_diff",
      "ppg_differential", "pag_differential", "winPct_differential",
      "yards_differential", "turnover_differential",
      "is_divisional", "is_conference",
      "is_thursday_night", "is_monday_night", "is_sunday_night",
      "temperature", "wind_speed", "precipitation", "is_dome",
      "home_epa_per_play", "away_epa_per_play",
      "home_epa_allowed", "away_epa_allowed",
      "home_success_rate", "away_success_rate",
      "home_explosive_rate", "away_explosive_rate",
      "home_qb_epa", "away_qb_epa",
      "home_home_record", "home_away_record",
      "away_home_record", "away_away_record",
      "home_sos", "away_sos",
      "epa_differential", "qb_epa_differential",
      "home_advantage_diff", "sos_differential", "success_rate_diff">>

\* A missing value of the frame is a number with denominator 0.
NaN == <<0, 0>>

\* DataFrame.fillna(0) on one cell.
FillNa(v) == IF v[2] = 0 THEN Num(0) ELSE v

\* X = df[feature_cols].fillna(0): the row of X for one record.
feature_row(record) ==
    [k \in 1..Len(feature_cols) |-> FillNa(record[feature_cols[k]])]

\* MLPredictor._extract_features, lines 85-151.
extract_features(game_data) ==
    LET home == game_data.homeTeam
        away == game_data.awayTeam
        matchup == game_data.matchup
        weather == game_data.weather
    IN  <<home.winPct, home.ppg, home.pag, home.yardsPerGame,
          home.yardsAllowedPerGame, home.turnoverDiff,
          away.winPct, away.ppg, away.pag, away.yardsPerGame,
          away.yardsAllowedPerGame, away.turnoverDiff,
          PredictLast3Avg(home.last3Games, "pointsScored"),
          PredictLast3Avg(home.last3Games, "pointsAllowed"),
          PredictLast3Avg(away.last3Games, "pointsScored"),
          PredictLast3Avg(away.last3Games, "pointsAllowed"),
          Get(home.restDays, Num(7)),
          Get(away.restDays, Num(7)),
          Get(matchup.restDaysDiff, Num(0)),
          FracSub(home.ppg, away.ppg),
          FracSub(away.pag, home.pag),
          FracSub(home.winPct, away.winPct),
          FracSub(home.yardsPerGame, away.yardsPerGame),
          FracSub(home.turnoverDiff, away.turnoverDiff),
          Flag(matchup.isDivisional),
          Flag(matchup.isConference),
          Flag(Get(matchup.isThursdayNight, FALSE)),
          Flag(Get(matchup.isMondayNight, FALSE)),
          Flag(Get(matchup.isSundayNight, FALSE)),
          weather.temperature, weather.windSpeed, weather.precipitation,
          Flag(weather.isDome)>>

----------------------------------------------------------------------------
(* enrich_with_epa.EPAEnricher: load_play_by_play_data and                 *)
(* calculate_team_epa_metrics with its cache.                              *)

\* Bound on the number of calls made on one EPAEnricher.
MaxEpaCalls == 4

\* Line 85: the least number of plays the metrics are computed from.
MinPlays == 50

\* The number of identical rows a kind of play has in a frame that holds it.
PlaysPerKind == 30

\* The kinds of play of the frames: epa and qb_epa in tenths of a point, is_pass
\* the column 'pass' (a play that is no pass is a rush).
PlayKinds ==
    {[season |-> 2024, week |-> 1, posteam |-> "DAL", defteam |-> "NYG",
      epa |-> 3, qb_epa |-> 3, is_pass |-> TRUE, yards_gained |-> 25],
     [season |-> 2024, week |-> 1, posteam |-> "DAL", defteam |-> "NYG",
      epa |-> -2, qb_epa |-> -2, is_pass |-> FALSE, yards_gained |-> 12],
     [season |-> 2024, week |-> 1, posteam |-> "NYG", defteam |-> "DAL",
      epa |-> -2, qb_epa |-> -1, is_pass |-> TRUE, yards_gained |-> 5],
     [season |-> 2024, week |-> 2, posteam |-> "DAL", defteam |-> "NYG",
      epa |-> 3, qb_epa |-> 3, is_pass |-> TRUE, yards_gained |-> 25]}

\* The frames nfl.import_pbp_data can return: rows is kind of play -> number
\* of rows, has_epa says whether the frame has the column 'epa'.  The columns
\* season, week, posteam and defteam are always there.
PbpFrames ==
    [loaded : {TRUE}, has_epa : BOOLEAN, rows : [PlayKinds -> {0, PlaysPerKind}]]

\* Line 30: self.pbp_data = None, no frame.
NoFrame ==
    [loaded |-> FALSE, has_epa |-> FALSE, rows |-> [k \in PlayKinds |-> 0]]

EpaTeams == {"DAL", "NYG"}
EpaSeasons == {2024}
EpaWeeks == {1, 2, 3}

\* Line 72: f"{team_abbr}_{season}_{week}".
cache_key(team_abbr, s, w) ==
    team_abbr \o "_" \o ToString(s) \o "_" \o ToString(w)

\* len() of the rows of the frame whose kind is in kinds.
RECURSIVE RowCount(_, _)
RowCount(frame, kinds) ==
    IF kinds = {} THEN 0
    ELSE LET k == CHOOSE x \in kinds : TRUE
         IN  frame[k] + RowCount(frame, kinds \ {k})

\* Sum of a column over the rows of the frame whose kind is in kinds.
RECURSIVE ColumnSum(_, _, _)
ColumnSum(frame, kinds, column) ==
    IF kinds = {} THEN 0
    ELSE LET k == CHOOSE x \in kinds : TRUE
         IN  (frame[k] * k[column]) + ColumnSum(frame, kinds \ {k}, column)

\* Lines 80-91: returned when fewer than 50 plays are found.
default_metrics ==
    [epa_per_play |-> Num(0), epa_allowed_per_play |-> Num(0),
     success_rate |-> Half, explosive_rate |-> <<1, 10>>, qb_epa |-> Num(0),
     data_quality |-> "insufficient"]

\* Lines 77-82: the kinds of play of the team before the week.
team_plays_of(team_abbr, s, w) ==
    {k \in PlayKinds :
        /\ k.season = s
        /\ k.week < w
        /\ (k.posteam = team_abbr \/ k.defteam = team_abbr)}

\* Lines 77-100 without the cache: subscripting None raises TypeError (line
\* 77), and with 50 plays or more team_plays['epa'] of a frame without the
\* column raises KeyError (line 100).
compute_epa_raises(data, team_abbr, s, w) ==
    \/ ~data.loaded
    \/ /\ ~data.has_epa
       /\ RowCount(data.rows, team_plays_of(team_abbr, s, w)) >= MinPlays

\* Lines 76-140 of calculate_team_epa_metrics: the metrics computed from the
\* rows of the frame, without the cache.  epa and qb_epa are in tenths.
compute_epa_metrics(frame, team_abbr, s, w) ==
    LET team_plays ==
            {k \in team_plays_of(team_abbr, s, w) : frame[k] > 0}
        offense_plays == {k \in team_plays : k.posteam = team_abbr}
        defense_plays == {k \in team_plays : k.defteam = team_abbr}
        n_off == RowCount(frame, offense_plays)
        n_def == RowCount(frame, defense_plays)
        explosive_plays ==
            {k \in offense_plays :
                \/ k.is_pass /\ k.yards_gained >= 20
                \/ ~k.is_pass /\ k.yards_gained >= 10}
        qb_plays == {k \in offense_plays : k.is_pass}
        n_qb == RowCount(frame, qb_plays)
    IN  IF RowCount(frame, team_plays) < MinPlays THEN default_metrics
        ELSE [epa_per_play |->
                  IF n_off > 0
                  THEN Div(ColumnSum(frame, offense_plays, "epa"), 10 * n_off)
                  ELSE Num(0),
              epa_allowed_per_play |->
                  IF n_def > 0
                  THEN Div(ColumnSum(frame, defense_plays, "epa"), 10 * n_def)
                  ELSE Num(0),
              success_rate |->
                  IF n_off > 0
                  THEN Div(RowCount(frame, {k \in offense_plays : k.epa > 0}),
                           n_off)
                  ELSE Half,
              explosive_rate |->
                  IF n_off > 0
                  THEN Div(RowCount(frame, explosive_plays), n_off)
                  ELSE Num(0),
              qb_epa |->
                  IF n_qb > 0
                  THEN Div(ColumnSum(frame, qb_plays, "qb_epa"), 10 * n_qb)
                  ELSE Num(0),
              data_quality |-> "good"]

\* team_abbr_map.TEAM_NAME_TO_ABBR, lines 10-63: ESPN name, abbreviation.
TEAM_NAME_TO_ABBR ==
    {<<"Buffalo Bills", "BUF">>,
     <<"Miami Dolphins", "MIA">>,
     <<"New England Patriots", "NE">>,
     <<"New York Jets", "NYJ">>,
     <<"Baltimore Ravens", "BAL">>,
     <<"Cincinnati Bengals", "CIN">>,
     <<"Cleveland Browns", "CLE">>,
     <<"Pittsburgh Steelers", "PIT">>,
     <<"Houston Texans", "HOU">>,
     <<"Indianapolis Colts", "IND">>,
     <<"Jacksonville Jaguars", "JAX">>,
     <<"Tennessee Titans", "TEN">>,
     <<"Denver Broncos", "DEN">>,
     <<"Kansas City Chiefs", "KC">>,
     <<"Las Vegas Raiders", "LV">>,
     <<"Oakland Raiders", "OAK">>,
     <<"Los Angeles Chargers", "LAC">>,
     <<"San Diego Chargers", "SD">>,
     <<"Dallas Cowboys", "DAL">>,
     <<"New York Giants", "NYG">>,
     <<"Philadelphia Eagles", "PHI">>,
     <<"Washington Commanders", "WAS">>,
     <<"Washington Football Team", "WAS">>,
     <<"Washington Redskins", "WAS">>,
     <<"Chicago Bears", "CHI">>,
     <<"Detroit Lions", "DET">>,
     <<"Green Bay Packers", "GB">>,
     <<"Minnesota Vikings", "MIN">>,
     <<"Atlanta Falcons", "ATL">>,
     <<"Carolina Panthers", "CAR">>,
     <<"New Orleans Saints", "NO">>,
     <<"Tampa Bay Buccaneers", "TB">>,
     <<"Arizona Cardinals", "ARI">>,
     <<"Los Angeles Rams", "LA">>,
     <<"St. Louis Rams", "STL">>,
     <<"San Francisco 49ers", "SF">>,
     <<"Seattle Seahawks", "SEA">>}

\* team_abbr_map.get_abbr, line 132: dict.get, None for a name that is no key.
get_abbr(espn_name) ==
    IF \E row \in TEAM_NAME_TO_ABBR : row[1] = espn_name
    THEN (CHOOSE row \in TEAM_NAME_TO_ABBR : row[1] = espn_name)[2]
    ELSE None

\* calculate_team_epa_metrics, lines 72-143, on the cache and the frame given:
\* whether it raises, what it returns and the cache it leaves.
epa_call_raises(cache, data, team_abbr, s, w) ==
    /\ cache_key(team_abbr, s, w) \notin DOMAIN cache
    /\ compute_epa_raises(data, team_abbr, s, w)

epa_call_value(cache, data, team_abbr, s, w) ==
    IF cache_key(team_abbr, s, w) \in DOMAIN cache
    THEN cache[cache_key(team_abbr, s, w)]
    ELSE compute_epa_metrics(data.rows, team_abbr, s, w)

epa_call_cache(cache, data, team_abbr, s, w) ==
    [c \in DOMAIN cache \cup {cache_key(team_abbr, s, w)} |->
        IF c = cache_key(team_abbr, s, w)
        THEN epa_call_value(cache, data, team_abbr, s, w)
        ELSE cache[c]]

OddsIdle ==
    /\ espn_game = None
    /\ odds_events = <<>>
    /\ event_id = None

ConfIdle ==
    /\ test_games = <<>>
    /\ confidence_thresholds = <<>>
    /\ threshold_pos = 0
    /\ conf_results = <<>>
    /\ recommendations = None

\* No model yet, no prediction, no result.
NoModel == [origin |-> "none", fit_no |-> 0]

BacktestIdle ==
    /\ model = NoModel
    /\ all_predictions = <<>>
    /\ results_by_season = <<>>
    /\ overall_ats = None

FeatIdle ==
    /\ data_point = None
    /\ train_record = None
    /\ X_row = <<>>
    /\ features = <<>>
    /\ wf_row = None

EpaIdle ==
    /\ pbp_data = NoFrame /\ team_cache = <<>>
    /\ epa_metrics = None /\ advanced_metrics = None
    /\ epa_calls = 0

EvalIdle ==
    /\ script = None /\ df = <<>> /\ loop_pos = 0 /\ fit_calls = <<>>
    /\ X_train = <<>> /\ X_test = <<>>

AtsIdle ==
    /\ scorer = None /\ n_read = 0 /\ pred = None
    /\ wins = 0 /\ losses = 0 /\ pushes = 0 /\ matched = 0
    /\ total_bets = 0 /\ units_won = 0 /\ report = None

SplitsIdle ==
    /\ sorted_games = <<>> /\ i = 0
    /\ team_history = NewHistory /\ game_splits = <<>>

\* No team plays two games that kick off at the same time.
OneGameAtATime(games) ==
    \A j, k \in 1..Len(games) :
        (j # k /\ games[j].date = games[k].date) =>
            {games[j].home, games[j].away} \cap {games[k].home, games[k].away} = {}

\* main() hands the games of the data file to calculate_splits_and_streaks.
InitSplits ==
    /\ pc = "splits_start"
    /\ \E raw \in SeqsUpTo(SplitGames, MaxGames) :
           /\ OneGameAtATime(raw)
           /\ all_games = [k \in 1..Len(raw) |-> WithId(raw[k], k)]
    /\ SplitsIdle
    /\ StatsIdle
    /\ AtsIdle
    /\ EvalIdle
    /\ EpaIdle
    /\ FeatIdle
    /\ BacktestIdle
    /\ ConfIdle
    /\ OddsIdle

\* Lines 28-44: sort, fresh team_history and game_splits.
splits_begin ==
    /\ pc = "splits_start"
    /\ sorted_games' = SortedGames(all_games)
    /\ i' = 0
    /\ team_history' = NewHistory
    /\ game_splits' = <<>>
    /\ pc' = "splits_loop"
    /\ UNCHANGED <<oddsVars, confVars, backtestVars, featVars, epaVars, evalVars, all_games, statsVars, atsVars>>

\* Lines 46-110: one iteration of the loop: record, then update.
splits_iteration ==
    /\ pc = "splits_loop"
    /\ i < Len(sorted_games)
    /\ LET game == sorted_games[i + 1]
       IN  /\ game_splits' = (game.gameId :> SplitsBefore(team_history, game)) @@ game_splits
           /\ team_history' = UpdateHistory(team_history, game)
    /\ i' = i + 1
    /\ UNCHANGED <<oddsVars, confVars, backtestVars, featVars, epaVars, evalVars, pc, all_games, sorted_games, statsVars, atsVars>>

\* Line 117: return game_splits.
splits_return ==
    /\ pc = "splits_loop"
    /\ i = Len(sorted_games)
    /\ pc' = "splits_done"
    /\ UNCHANGED <<oddsVars, confVars, backtestVars, featVars, epaVars, evalVars, all_games, splitsVars, statsVars, atsVars>>

\* Bound on the number of weeks in the game list of one season.
MaxSeasonWeeks == 3

\* The list of one season as its caller builds it: the games of season s
\* alone, in week order, here one game in each week of W.
SeasonList(s, W, ms, os) ==
    LET order == Ascending(W)
    IN  [j \in 1..Cardinality(W) |->
            [season |-> s, week |-> order[j],
             home |-> ms[order[j]][1], away |-> ms[order[j]][2],
             homeScore |-> os[order[j]].homeScore,
             awayScore |-> os[order[j]].awayScore,
             completed |-> os[order[j]].completed]]

\* The cutoff of a call made for the games of one week: the week of a game
\* of the list and one of the two teams of that game.
CutoffFromList ==
    \E k \in 1..Len(all_games) :
        /\ week = all_games[k].week
        /\ team_name \in {all_games[k].home, all_games[k].away}

\* backtest_season (lines 183-209): season_games holds the games of the test
\* season, sorted by week; for every week of the list and every game of that
\* week the statistics of its two teams are asked for with the test season,
\* that week and season_games.  The games of the historical file are over.
InitHist ==
    /\ pc = "hist_start"
    /\ season \in CutoffSeasons
    /\ \E W \in (SUBSET (1..MaxSeasonWeeks)) \ {{}} :
       \E ms \in [W -> StatMatchups] :
       \E os \in [W -> {o \in StatOutcomes : o.completed}] :
           all_games = SeasonList(season, W, ms, os)
    /\ CutoffFromList
    /\ hist_stats = None /\ fetch_stats = None
    /\ SplitsIdle
    /\ AtsIdle
    /\ EvalIdle
    /\ EpaIdle
    /\ FeatIdle
    /\ BacktestIdle
    /\ ConfIdle
    /\ OddsIdle

\* fetch_2025_games (lines 22-108) fetches the season 2025 week by week, games
\* not played yet included; predict_week (lines 259-276) asks for the
\* statistics of the two teams of every game of a week of that list, with
\* season 2025, that week and the whole list.
InitFetch ==
    /\ pc = "fetch_start"
    /\ season = 2025
    /\ \E W \in (SUBSET (1..MaxSeasonWeeks)) \ {{}} :
       \E ms \in [W -> StatMatchups] :
       \E os \in [W -> StatOutcomes] :
           all_games = SeasonList(season, W, ms, os)
    /\ CutoffFromList
    /\ hist_stats = None /\ fetch_stats = None
    /\ SplitsIdle
    /\ AtsIdle
    /\ EvalIdle
    /\ EpaIdle
    /\ FeatIdle
    /\ BacktestIdle
    /\ ConfIdle
    /\ OddsIdle

\* The two functions on any arguments, for the properties stated of every
\* team, cutoff and game list: lists in any order, with games of two seasons,
\* teams that are not in the list and cutoffs that are no week of the list.
\* calculate_team_stats_historical reads no key 'completed'; its lists are
\* taken from the games that are over.
InitAnyArguments ==
    /\ \/ /\ pc = "hist_start"
          /\ all_games \in SeqsUpTo({g \in StatGames : g.completed}, MaxStatGames)
       \/ /\ pc = "fetch_start"
          /\ all_games \in SeqsUpTo(StatGames, MaxStatGames)
    /\ team_name \in Teams
    /\ season \in CutoffSeasons
    /\ week \in CutoffWeeks
    /\ hist_stats = None /\ fetch_stats = None
    /\ SplitsIdle
    /\ AtsIdle
    /\ EvalIdle
    /\ EpaIdle
    /\ FeatIdle
    /\ BacktestIdle
    /\ ConfIdle
    /\ OddsIdle

\* The calls the two scripts make.
InitStats == InitHist \/ InitFetch

stats_historical_call ==
    /\ pc = "hist_start"
    /\ hist_stats' = calculate_team_stats_historical(team_name, season, week, all_games)
    /\ pc' = "hist_done"
    /\ UNCHANGED <<oddsVars, confVars, backtestVars, featVars, epaVars, evalVars, all_games, splitsVars, atsVars, team_name, season, week, fetch_stats>>

fetch_team_stats_call ==
    /\ pc = "fetch_start"
    /\ fetch_stats' = fetch_team_stats(team_name, season, week, all_games)
    /\ pc' = "fetch_done"
    /\ UNCHANGED <<oddsVars, confVars, backtestVars, featVars, epaVars, evalVars, all_games, splitsVars, atsVars, team_name, season, week, hist_stats>>

NextStats == stats_historical_call \/ fetch_team_stats_call

SpecStats == InitStats /\ [][NextStats]_vars

\* Bound on the number of weeks played in the season below.
MaxWeeksPlayed == 4

Last3Matchups ==
    {<<"Dallas Cowboys", "New York Giants">>,
     <<"New York Giants", "Dallas Cowboys">>,
     <<"New York Giants", "Philadelphia Eagles">>}

Last3Scores == {<<3, 0>>, <<1, 2>>}

WeekGame(w, m, sc) ==
    [season |-> 2024, week |-> w, home |-> m[1], away |-> m[2],
     homeScore |-> sc[1], awayScore |-> sc[2], completed |-> TRUE]

\* The games of one season as backtest_season (sorted by week, line 186) and
\* fetch_2025_games (fetched week by week) hand them over: in week order,
\* here one game a week, all of them played.
InitSeason ==
    /\ pc \in {"hist_start", "fetch_start"}
    /\ \E len \in 0..MaxWeeksPlayed :
       \E ms \in [1..len -> Last3Matchups] :
       \E scs \in [1..len -> Last3Scores] :
           all_games = [w \in 1..len |-> WeekGame(w, ms[w], scs[w])]
    /\ team_name \in Teams
    /\ season = 2024
    /\ week \in 1..(MaxWeeksPlayed + 1)
    /\ hist_stats = None /\ fetch_stats = None
    /\ SplitsIdle
    /\ AtsIdle
    /\ EvalIdle
    /\ EpaIdle
    /\ FeatIdle
    /\ BacktestIdle
    /\ ConfIdle
    /\ OddsIdle

SpecSeason == InitSeason /\ [][NextStats]_vars

\* The two statistics functions on any of the game lists above.
InitAnyStats == InitStats \/ InitAnyArguments \/ InitSeason

SpecAnyStats == InitAnyStats /\ [][NextStats]_vars

NextSplits == splits_begin \/ splits_iteration \/ splits_return

SpecSplits == InitSplits /\ [][NextSplits]_vars

\* Bound on the number of games of the schedule below.
MaxStreakGames == 5

\* A schedule with one game per date and a winner in every game.
StreakMatchups ==
    {<<"Dallas Cowboys", "New York Giants">>,
     <<"New York Giants", "Dallas Cowboys">>,
     <<"New York Giants", "Philadelphia Eagles">>}

StreakScores == {<<1, 0>>, <<0, 1>>}

\* The game of the schedule played at date d.
ScheduledGame(d, m, sc) ==
    [gameId |-> d, season |-> 2024, week |-> d, date |-> d,
     home |-> m[1], away |-> m[2], homeScore |-> sc[1], awayScore |-> sc[2]]

Reversed(s) == [k \in 1..Len(s) |-> s[Len(s) + 1 - k]]

\* main() hands over the games of the data file, here the schedule in
\* chronological order or latest game first.
InitStreak ==
    /\ pc = "splits_start"
    /\ \E len \in 0..MaxStreakGames :
       \E ms \in [1..len -> StreakMatchups] :
       \E scs \in [1..len -> StreakScores] :
       \E latest_first \in BOOLEAN :
           LET schedule == [d \in 1..len |-> ScheduledGame(d, ms[d], scs[d])]
           IN  all_games = IF latest_first THEN Reversed(schedule) ELSE schedule
    /\ SplitsIdle
    /\ StatsIdle
    /\ AtsIdle
    /\ EvalIdle
    /\ EpaIdle
    /\ FeatIdle
    /\ BacktestIdle
    /\ ConfIdle
    /\ OddsIdle

SpecStreak == InitStreak /\ [][NextSplits]_vars

\* Bound on the number of games of the schedule of the records comparison.
MaxRecordGames == 3

RecordMatchups ==
    {<<"Dallas Cowboys", "New York Giants">>,
     <<"New York Giants", "Dallas Cowboys">>,
     <<"Dallas Cowboys", "Philadelphia Eagles">>,
     <<"Philadelphia Eagles", "New York Giants">>}

\* The season and week of the d-th kick-off: one game in week 2 of 2023, then
\* two kick-offs in every week of 2024.
KickoffSlot(d) == IF d = 1 THEN <<2023, 2>> ELSE <<2024, d \div 2>>

\* The winPct the file holds for a team, <<>> where the key is missing.
RecordWinPct(team) ==
    CASE team = "Dallas Cowboys" -> <<Div(3, 4)>>
      [] team = "New York Giants" -> <<Div(1, 4)>>
      [] OTHER -> <<>>

RecordGame(d, m, sc) ==
    [gameId |-> d, season |-> KickoffSlot(d)[1], week |-> KickoffSlot(d)[2],
     date |-> d, home |-> m[1], away |-> m[2],
     homeScore |-> sc[1], awayScore |-> sc[2],
     homeWinPct |-> RecordWinPct(m[1]), awayWinPct |-> RecordWinPct(m[2])]

\* The games of a data file, one per kick-off, in chronological order or
\* latest game first.
InitRecords ==
    /\ pc = "splits_start"
    /\ \E len \in 0..MaxRecordGames :
       \E ms \in [1..len -> RecordMatchups] :
       \E scs \in [1..len -> ScorePairs] :
       \E latest_first \in BOOLEAN :
           LET schedule == [d \in 1..len |-> RecordGame(d, ms[d], scs[d])]
           IN  all_games = IF latest_first THEN Reversed(schedule) ELSE schedule
    /\ SplitsIdle
    /\ StatsIdle
    /\ AtsIdle
    /\ EvalIdle
    /\ EpaIdle
    /\ FeatIdle
    /\ BacktestIdle
    /\ ConfIdle
    /\ OddsIdle

\* The frames of the records comparison: no frame (import_pbp_data raised),
\* or every kind of play PlaysPerKind times, with or without the column 'epa'.
EnrichFrames ==
    {NoFrame} \cup {f \in PbpFrames : \A k \in PlayKinds : f.rows[k] = PlaysPerKind}

\* load_play_by_play_data, lines 34-56, called on the enricher before the
\* games are enriched (enrich_training_data, line 334): self.pbp_data is the
\* frame import_pbp_data returned, or as before when it raised.
enrich_load ==
    /\ pc = "splits_done"
    /\ pbp_data' \in EnrichFrames
    /\ pc' = "enrich_loaded"
    /\ UNCHANGED <<oddsVars, confVars, backtestVars, featVars, all_games,
                   splitsVars, statsVars, atsVars, evalVars, team_cache,
                   epa_metrics, advanced_metrics, epa_calls>>

\* Lines 267-296: the dict of one side of game['advanced_metrics'].
advanced_side(epa, records, sos) ==
    [epa_per_play |-> epa.epa_per_play,
     epa_allowed_per_play |-> epa.epa_allowed_per_play,
     success_rate |-> epa.success_rate,
     explosive_rate |-> epa.explosive_rate,
     qb_epa |-> epa.qb_epa,
     home_record_pct |-> records.home_win_pct,
     away_record_pct |-> records.away_win_pct,
     strength_of_schedule |-> sos,
     data_quality |-> epa.data_quality]

\* enrich_game, lines 221-299, on the next game of the loop of
\* enrich_training_data (lines 342-343): the abbreviations, the EPA metrics
\* of both teams through the cache, the records and the schedule strength
\* of both teams, for the game's own season and week.  A game of a team
\* without abbreviation is returned as it is.
enrich_game ==
    /\ pc \in {"splits_done", "enrich_loaded", "records_done", "enrich_skipped"}
    /\ epa_calls < Len(all_games)
    /\ LET game == all_games[epa_calls + 1]
           home_abbr == get_abbr(game.home)
           away_abbr == get_abbr(game.away)
           home_cache == epa_call_cache(team_cache, pbp_data, home_abbr,
                                        game.season, game.week)
           home_epa == epa_call_value(team_cache, pbp_data, home_abbr,
                                      game.season, game.week)
           away_epa == epa_call_value(home_cache, pbp_data, away_abbr,
                                      game.season, game.week)
       IN  IF home_abbr = None \/ away_abbr = None
           THEN /\ pc' = "enrich_skipped"
                /\ UNCHANGED <<team_cache, epa_metrics, advanced_metrics>>
           ELSE /\ ~epa_call_raises(team_cache, pbp_data, home_abbr,
                                    game.season, game.week)
                /\ ~epa_call_raises(home_cache, pbp_data, away_abbr,
                                    game.season, game.week)
                /\ team_cache' = epa_call_cache(home_cache, pbp_data, away_abbr,
                                                game.season, game.week)
                /\ epa_metrics' =
                       [team |-> away_abbr, season |-> game.season,
                        week |-> game.week, value |-> away_epa]
                /\ advanced_metrics' =
                       [gameId |-> game.gameId,
                        home |-> advanced_side(home_epa,
                                     calculate_home_away_records(
                                         all_games, game.home, game.season,
                                         game.week),
                                     calculate_strength_of_schedule(
                                         all_games, game.home, game.season,
                                         game.week)),
                        away |-> advanced_side(away_epa,
                                     calculate_home_away_records(
                                         all_games, game.away, game.season,
                                         game.week),
                                     calculate_strength_of_schedule(
                                         all_games, game.away, game.season,
                                         game.week))]
                /\ pc' = "records_done"
    /\ epa_calls' = epa_calls + 1
    /\ UNCHANGED <<oddsVars, confVars, backtestVars, featVars, all_games,
                   splitsVars, statsVars, atsVars, evalVars, pbp_data>>

\* enrich_game, lines 246-247: calculate_team_epa_metrics raises for the home
\* team, or, after the metrics of the home team were cached and returned,
\* for the away team; the game gets no advanced_metrics.
enrich_game_raises ==
    /\ pc \in {"splits_done", "enrich_loaded", "records_done", "enrich_skipped"}
    /\ epa_calls < Len(all_games)
    /\ LET game == all_games[epa_calls + 1]
           home_abbr == get_abbr(game.home)
           away_abbr == get_abbr(game.away)
           home_cache == epa_call_cache(team_cache, pbp_data, home_abbr,
                                        game.season, game.week)
       IN  /\ home_abbr # None
           /\ away_abbr # None
           /\ IF epa_call_raises(team_cache, pbp_data, home_abbr,
                                 game.season, game.week)
              THEN UNCHANGED <<team_cache, epa_metrics>>
              ELSE /\ epa_call_raises(home_cache, pbp_data, away_abbr,
                                      game.season, game.week)
                   /\ team_cache' = home_cache
                   /\ epa_metrics' =
                          [team |-> home_abbr, season |-> game.season,
                           week |-> game.week,
                           value |-> epa_call_value(team_cache, pbp_data,
                                         home_abbr, game.season, game.week)]
    /\ pc' = "enrich_raised"
    /\ UNCHANGED <<oddsVars, confVars, backtestVars, featVars, all_games,
                   splitsVars, statsVars, atsVars, evalVars, pbp_data,
                   advanced_metrics, epa_calls>>

NextRecords ==
    \/ NextSplits
    \/ enrich_load
    \/ enrich_game
    \/ enrich_game_raises

SpecRecords == InitRecords /\ [][NextRecords]_vars

----------------------------------------------------------------------------
(* The feature builders applied to one game: train_model.main builds the   *)
(* frame and X, MLPredictor.predict extracts the features of the same      *)
(* game, walk_forward_validation builds its own frame.                     *)

InitFeatures ==
    /\ pc = "feat_start"
    /\ all_games = <<>>
    /\ SplitsIdle
    /\ StatsIdle
    /\ AtsIdle
    /\ EvalIdle
    /\ EpaIdle
    /\ BacktestIdle
    /\ ConfIdle
    /\ OddsIdle
    /\ data_point \in FeatureGames
    /\ train_record = None
    /\ X_row = <<>>
    /\ features = <<>>
    /\ wf_row = None

FeatUnchanged ==
    UNCHANGED <<oddsVars, confVars, backtestVars, all_games, splitsVars, statsVars, atsVars,
                evalVars, epaVars, data_point>>

create_features_dataframe_call ==
    /\ pc = "feat_start"
    /\ train_record' = create_features_dataframe(data_point)
    /\ pc' = "feat_df"
    /\ FeatUnchanged
    /\ UNCHANGED <<X_row, features, wf_row>>

prepare_training_data_call ==
    /\ pc = "feat_df"
    /\ X_row' = feature_row(train_record)
    /\ pc' = "feat_X"
    /\ FeatUnchanged
    /\ UNCHANGED <<train_record, features, wf_row>>

extract_features_call ==
    /\ pc = "feat_X"
    /\ features' = extract_features(data_point)
    /\ pc' = "feat_done"
    /\ FeatUnchanged
    /\ UNCHANGED <<train_record, X_row, wf_row>>

wf_prepare_training_data_call ==
    /\ pc = "feat_start"
    /\ wf_row' = wf_record(data_point)
    /\ pc' = "wf_feat_done"
    /\ FeatUnchanged
    /\ UNCHANGED <<train_record, X_row, features>>

NextFeatures ==
    \/ create_features_dataframe_call
    \/ prepare_training_data_call
    \/ extract_features_call
    \/ wf_prepare_training_data_call

SpecFeatures == InitFeatures /\ [][NextFeatures]_vars

----------------------------------------------------------------------------
(* Calls on one EPAEnricher.                                               *)

InitEpa ==
    /\ pc = "epa_start"
    /\ all_games = <<>>
    /\ SplitsIdle
    /\ StatsIdle
    /\ AtsIdle
    /\ EvalIdle
    /\ FeatIdle
    /\ BacktestIdle
    /\ ConfIdle
    /\ OddsIdle
    /\ EpaIdle

EpaUnchanged ==
    UNCHANGED <<oddsVars, confVars, all_games, splitsVars, statsVars, atsVars, evalVars, featVars,
                backtestVars, advanced_metrics>>

\* load_play_by_play_data, lines 44-52: the frame is replaced; the cache is
\* left as it is.
load_play_by_play_data ==
    /\ pc \in {"epa_start", "epa_loaded", "epa_returned"}
    /\ epa_calls < MaxEpaCalls
    /\ \E frame \in PbpFrames : frame.has_epa /\ pbp_data' = frame
    /\ pc' = "epa_loaded"
    /\ epa_calls' = epa_calls + 1
    /\ UNCHANGED <<team_cache, epa_metrics>>
    /\ EpaUnchanged

\* load_play_by_play_data returns False, lines 43-56: either import_pbp_data
\* raises and the enricher is as before, or it returns a frame without the
\* column 'epa', which line 45 has assigned to self.pbp_data before line 48
\* raises.  The cache is left as it is.
load_play_by_play_data_fails ==
    /\ pc \in {"epa_start", "epa_loaded", "epa_returned"}
    /\ epa_calls < MaxEpaCalls
    /\ \/ UNCHANGED <<pc, pbp_data>>
       \/ /\ \E frame \in PbpFrames : ~frame.has_epa /\ pbp_data' = frame
          /\ pc' = "epa_loaded"
    /\ epa_calls' = epa_calls + 1
    /\ UNCHANGED <<team_cache, epa_metrics>>
    /\ EpaUnchanged

\* calculate_team_epa_metrics raises: the key is not in the cache and
\* self.pbp_data is None or lacks the column the 50 plays are read from.
calculate_team_epa_metrics_raises ==
    /\ pc \in {"epa_start", "epa_loaded", "epa_returned"}
    /\ epa_calls < MaxEpaCalls
    /\ \E team_abbr \in EpaTeams : \E s \in EpaSeasons : \E w \in EpaWeeks :
           epa_call_raises(team_cache, pbp_data, team_abbr, s, w)
    /\ pc' = "epa_raised"
    /\ epa_calls' = epa_calls + 1
    /\ UNCHANGED <<pbp_data, team_cache, epa_metrics>>
    /\ EpaUnchanged

\* calculate_team_epa_metrics, lines 58-143.
calculate_team_epa_metrics ==
    /\ pc \in {"epa_start", "epa_loaded", "epa_returned"}
    /\ epa_calls < MaxEpaCalls
    /\ \E team_abbr \in EpaTeams : \E s \in EpaSeasons : \E w \in EpaWeeks :
           /\ ~epa_call_raises(team_cache, pbp_data, team_abbr, s, w)
           /\ team_cache' = epa_call_cache(team_cache, pbp_data, team_abbr, s, w)
           /\ epa_metrics' =
                  [team |-> team_abbr, season |-> s, week |-> w,
                   value |-> epa_call_value(team_cache, pbp_data, team_abbr,
                                            s, w)]
    /\ pc' = "epa_returned"
    /\ epa_calls' = epa_calls + 1
    /\ UNCHANGED pbp_data
    /\ EpaUnchanged

NextEpa ==
    \/ load_play_by_play_data
    \/ load_play_by_play_data_fails
    \/ calculate_team_epa_metrics_raises
    \/ calculate_team_epa_metrics

SpecEpa == InitEpa /\ [][NextEpa]_vars

----------------------------------------------------------------------------
(* backtest_confidence.backtest_with_confidence and                        *)
(* predict_with_confidence.NFLPredictor.predict_game.  Spreads are in      *)
(* quarter points; the two scripts extract the same features and load the  *)
(* same model, so the predicted spread of a game is the same in both and   *)
(* is held in the game's row.                                              *)

\* Bound on the number of games the backtest goes over.
MaxConfGames == 2

\* A game of test_games: the model's prediction, the Vegas spread and the
\* actual spread.  A game without lines has no Vegas spread (0 here, not read).
ConfRows ==
    {r \in [predicted_spread : {-4, 0, 4}, vegas_spread : {-2, 0},
            actual_spread : {-4, -1, 0, 4}, has_line : BOOLEAN] :
        ~r.has_line =>
            r.vegas_spread = 0 /\ r.predicted_spread = 0 /\ r.actual_spread = 0}

\* Thresholds of 0.0, 1.0 and 2.0 points, the first three of main's list.
ConfThresholds == {0, 4, 8}

\* A plausible defect: the comparison with the threshold is inverted.
conf_bets_inverted(threshold, r) ==
    r.has_line /\ Abs(r.predicted_spread - r.vegas_spread) <= threshold

\* A plausible defect: the bet is placed only above the threshold.
conf_bets_above(threshold, r) ==
    r.has_line /\ Abs(r.predicted_spread - r.vegas_spread) > threshold

\* backtest_with_confidence, lines 125-140: the game has a line and the
\* confidence reaches the threshold.
conf_bets(threshold, r) ==
    r.has_line /\ Abs(r.predicted_spread - r.vegas_spread) >= threshold

\* Lines 141-165: the bet placed on game k of test_games.
conf_bet(k, r) ==
    LET bet_on_home == r.predicted_spread > r.vegas_spread
        home_covered == r.actual_spread > r.vegas_spread
        away_covered == r.actual_spread < r.vegas_spread
    IN  [game |-> k,
         vegas_spread |-> r.vegas_spread,
         predicted_spread |-> r.predicted_spread,
         actual_spread |-> r.actual_spread,
         confidence |-> Abs(r.predicted_spread - r.vegas_spread),
         bet_on |-> IF bet_on_home THEN "home" ELSE "away",
         won |-> IF bet_on_home THEN home_covered ELSE away_covered]

\* Lines 123-165: the list bets after the loop over test_games.
RECURSIVE conf_bets_loop(_, _, _)
conf_bets_loop(games, k, threshold) ==
    IF k > Len(games) THEN <<>>
    ELSE (IF conf_bets(threshold, games[k])
          THEN <<conf_bet(k, games[k])>> ELSE <<>>)
         \o conf_bets_loop(games, k + 1, threshold)

\* Lines 169-204: the record stored for the threshold; units in tenths.
conf_performance(threshold, bets) ==
    IF Len(bets) > 0
    THEN LET n_wins == Len(SelectSeq(bets, LAMBDA b : b.won))
             units == (n_wins * 10) - ((Len(bets) - n_wins) * 11)
         IN  [threshold |-> threshold, total_bets |-> Len(bets),
              wins |-> n_wins, losses |-> Len(bets) - n_wins,
              win_rate |-> Div(n_wins, Len(bets)),
              units |-> units,
              roi |-> Div(units * 100, 10 * Len(bets)),
              bets |-> bets]
    ELSE [threshold |-> threshold, total_bets |-> 0, wins |-> 0, losses |-> 0,
          win_rate |-> Num(0), units |-> 0, roi |-> Num(0), bets |-> <<>>]

\* NFLPredictor.predict_game, lines 120-160, for game k: the recommendation
\* and the side (the rounded numbers of the returned dict are left out).
predict_game(k, r, threshold) ==
    LET confident == Abs(r.predicted_spread - r.vegas_spread) >= threshold
    IN  [game |-> k,
         recommendation |->
             IF ~r.has_line THEN "None"
             ELSE IF confident THEN "BET" ELSE "PASS",
         bet_side |->
             IF ~r.has_line \/ ~confident THEN "None"
             ELSE IF r.predicted_spread > r.vegas_spread THEN "HOME"
             ELSE "AWAY"]

InitConfidence ==
    /\ pc = "conf_start"
    /\ all_games = <<>>
    /\ SplitsIdle
    /\ StatsIdle
    /\ AtsIdle
    /\ EvalIdle
    /\ EpaIdle
    /\ FeatIdle
    /\ BacktestIdle
    /\ OddsIdle
    /\ test_games \in SeqsUpTo(ConfRows, MaxConfGames)
    /\ confidence_thresholds \in ConfThresholds \X ConfThresholds
    /\ threshold_pos = 1
    /\ conf_results = <<>>
    /\ recommendations = None

ConfUnchanged ==
    UNCHANGED <<all_games, splitsVars, statsVars, atsVars, evalVars, epaVars,
                featVars, backtestVars, oddsVars, test_games,
                confidence_thresholds>>

\* Lines 122-204: one threshold of the loop.
threshold_iteration ==
    /\ pc = "conf_start"
    /\ threshold_pos <= Len(confidence_thresholds)
    /\ LET threshold == confidence_thresholds[threshold_pos]
           bets == conf_bets_loop(test_games, 1, threshold)
       IN  conf_results' =
               [t \in DOMAIN conf_results \cup {threshold} |->
                   IF t = threshold THEN conf_performance(threshold, bets)
                   ELSE conf_results[t]]
    /\ threshold_pos' = threshold_pos + 1
    /\ UNCHANGED <<pc, recommendations>>
    /\ ConfUnchanged

\* Line 206: return results.
conf_return ==
    /\ pc = "conf_start"
    /\ threshold_pos > Len(confidence_thresholds)
    /\ pc' = "conf_done"
    /\ UNCHANGED <<threshold_pos, conf_results, recommendations>>
    /\ ConfUnchanged

\* predict_with_confidence, lines 162-170 and 265: the predictor is given one
\* of the thresholds and predicts the same games.
predict_multiple_games ==
    /\ pc = "conf_done"
    /\ \E threshold \in Range(confidence_thresholds) :
           recommendations' =
               [threshold |-> threshold,
                predictions |->
                    [k \in 1..Len(test_games) |->
                        predict_game(k, test_games[k], threshold)]]
    /\ pc' = "conf_predicted"
    /\ UNCHANGED <<threshold_pos, conf_results>>
    /\ ConfUnchanged

NextConfidence ==
    \/ threshold_iteration
    \/ conf_return
    \/ predict_multiple_games

SpecConfidence == InitConfidence /\ [][NextConfidence]_vars

----------------------------------------------------------------------------
(* enrich_with_odds.TeamNameMapper and GameMatcher.  A team name is the    *)
(* sequence of its words.                                                  *)

\* Bound on the number of Odds API events handed to find_match.
MaxEvents == 2

\* str.lower() on a word.  The arms are the words of the team names of
\* team_abbr_map.TEAM_NAME_TO_ABBR and odds_config.TEAM_ALIAS_MAP that hold
\* an upper-case letter; every other word of those names ("49ers") and
\* every word written in lower case is its own lower-case form.
Lower(word) ==
    CASE word = "Angeles" -> "angeles"
      [] word = "Arizona" -> "arizona"
      [] word = "Atlanta" -> "atlanta"
      [] word = "Baltimore" -> "baltimore"
      [] word = "Bay" -> "bay"
      [] word = "Bears" -> "bears"
      [] word = "Bengals" -> "bengals"
      [] word = "Bills" -> "bills"
      [] word = "Broncos" -> "broncos"
      [] word = "Browns" -> "browns"
      [] word = "Buccaneers" -> "buccaneers"
      [] word = "Buffalo" -> "buffalo"
      [] word = "Cardinals" -> "cardinals"
      [] word = "Carolina" -> "carolina"
      [] word = "Chargers" -> "chargers"
      [] word = "Chicago" -> "chicago"
      [] word = "Chiefs" -> "chiefs"
      [] word = "Cincinnati" -> "cincinnati"
      [] word = "City" -> "city"
      [] word = "Cleveland" -> "cleveland"
      [] word = "Colts" -> "colts"
      [] word = "Commanders" -> "commanders"
      [] word = "Cowboys" -> "cowboys"
      [] word = "Dallas" -> "dallas"
      [] word = "Denver" -> "denver"
      [] word = "Detroit" -> "detroit"
      [] word = "Diego" -> "diego"
      [] word = "Dolphins" -> "dolphins"
      [] word = "Eagles" -> "eagles"
      [] word = "England" -> "england"
      [] word = "Falcons" -> "falcons"
      [] word = "Football" -> "football"
      [] word = "Francisco" -> "francisco"
      [] word = "Giants" -> "giants"
      [] word = "Green" -> "green"
      [] word = "Houston" -> "houston"
      [] word = "Indianapolis" -> "indianapolis"
      [] word = "Jacksonville" -> "jacksonville"
      [] word = "Jaguars" -> "jaguars"
      [] word = "Jets" -> "jets"
      [] word = "Kansas" -> "kansas"
      [] word = "Las" -> "las"
      [] word = "Lions" -> "lions"
      [] word = "Los" -> "los"
      [] word = "Louis" -> "louis"
      [] word = "Miami" -> "miami"
      [] word = "Minnesota" -> "minnesota"
      [] word = "New" -> "new"
      [] word = "Oakland" -> "oakland"
      [] word = "Orleans" -> "orleans"
      [] word = "Packers" -> "packers"
      [] word = "Panthers" -> "panthers"
      [] word = "Patriots" -> "patriots"
      [] word = "Philadelphia" -> "philadelphia"
      [] word = "Pittsburgh" -> "pittsburgh"
      [] word = "Raiders" -> "raiders"
      [] word = "Rams" -> "rams"
      [] word = "Ravens" -> "ravens"
      [] word = "Redskins" -> "redskins"
      [] word = "Saints" -> "saints"
      [] word = "San" -> "san"
      [] word = "Seahawks" -> "seahawks"
      [] word = "Seattle" -> "seattle"
      [] word = "St." -> "st."
      [] word = "Steelers" -> "steelers"
      [] word = "Tampa" -> "tampa"
      [] word = "Team" -> "team"
      [] word = "Tennessee" -> "tennessee"
      [] word = "Texans" -> "texans"
      [] word = "Titans" -> "titans"
      [] word = "Vegas" -> "vegas"
      [] word = "Vikings" -> "vikings"
      [] word = "Washington" -> "washington"
      [] word = "York" -> "york"
      [] OTHER -> word

\* odds_config.TEAM_ALIAS_MAP: canonical name -> aliases.
TEAM_ALIAS_MAP ==
    {[canonical |-> <<"Washington", "Commanders">>,
      aliases |-> {<<"Washington">>, <<"Washington", "Football", "Team">>}],
     [canonical |-> <<"Las", "Vegas", "Raiders">>,
      aliases |-> {<<"Oakland", "Raiders">>}],
     [canonical |-> <<"Los", "Angeles", "Rams">>,
      aliases |-> {<<"St.", "Louis", "Rams">>}],
     [canonical |-> <<"Los", "Angeles", "Chargers">>,
      aliases |-> {<<"San", "Diego", "Chargers">>}]}

\* normalize_team_name, lines 30-38: strip and lower; the loop over the
\* prefixes changes nothing.
normalize_team_name(name) == [k \in DOMAIN name |-> Lower(name[k])]

\* The words filtered out of the common words, line 59.
IgnoredWords == {"football", "team", "new", "los", "san"}

\* teams_match, lines 40-64.
teams_match(team1, team2) ==
    \/ normalize_team_name(team1) = normalize_team_name(team2)
    \/ \E group \in TEAM_ALIAS_MAP :
           /\ team1 \in {group.canonical} \cup group.aliases
           /\ team2 \in {group.canonical} \cup group.aliases
    \/ LET t1_words == Range(normalize_team_name(team1))
           t2_words == Range(normalize_team_name(team2))
       IN  ((t1_words \cap t2_words) \ IgnoredWords) # {}

\* The first event from position k on that find_match accepts, lines 181-195:
\* within 7 days of the game, home teams match and away teams match.
RECURSIVE find_match_from(_, _, _)
find_match_from(game, events, k) ==
    IF k > Len(events) THEN None
    ELSE IF /\ Abs(game.gameTime[1] - events[k].commence_time) <= 7
            /\ teams_match(game.homeTeam, events[k].home_team)
            /\ teams_match(game.awayTeam, events[k].away_team)
         THEN events[k].id
         ELSE find_match_from(game, events, k + 1)

\* find_match, lines 160-197; a gameTime that cannot be parsed gives None.
find_match(game, events) ==
    IF game.gameTime = <<>> THEN None
    ELSE find_match_from(game, events, 1)

\* Names as ESPN writes them and as the Odds API writes them.
EspnNames ==
    {<<"New", "York", "Giants">>, <<"New", "York", "Jets">>,
     <<"Dallas", "Cowboys">>, <<"Washington">>}

OddsNames ==
    {<<"New", "York", "Giants">>, <<"New", "York", "Jets">>,
     <<"Dallas", "Cowboys">>, <<"Washington", "Commanders">>}

\* Days since the game's week began; gameTime <<>> is an unparseable string.
EspnGames ==
    {g \in [gameTime : {<<>>, <<0>>}, homeTeam : EspnNames,
            awayTeam : EspnNames] : g.homeTeam # g.awayTeam}

OddsEvents ==
    {e \in [commence_time : {7, 8}, home_team : OddsNames,
            away_team : OddsNames] : e.home_team # e.away_team}

InitOdds ==
    /\ pc = "odds_start"
    /\ all_games = <<>>
    /\ SplitsIdle
    /\ StatsIdle
    /\ AtsIdle
    /\ EvalIdle
    /\ EpaIdle
    /\ FeatIdle
    /\ BacktestIdle
    /\ ConfIdle
    /\ espn_game \in EspnGames
    /\ \E events \in SeqsUpTo(OddsEvents, MaxEvents) :
           odds_events = [k \in 1..Len(events) |->
                             [id |-> "event" \o ToString(k),
                              commence_time |-> events[k].commence_time,
                              home_team |-> events[k].home_team,
                              away_team |-> events[k].away_team]]
    /\ event_id = None

\* GameMatcher.find_match(espn_game, odds_events).
find_match_call ==
    /\ pc = "odds_start"
    /\ event_id' = find_match(espn_game, odds_events)
    /\ pc' = "odds_matched"
    /\ UNCHANGED <<all_games, splitsVars, statsVars, atsVars, evalVars,
                   epaVars, featVars, backtestVars, confVars, espn_game,
                   odds_events>>

SpecOdds == InitOdds /\ [][find_match_call]_vars

----------------------------------------------------------------------------
(* The settlement loops as processes: the loop reads one row per step.     *)

Scorers == {"wf", "bh", "cap", "fix", "tts", "totals", "tm"}

InitAts ==
    /\ pc = "ats_loop"
    /\ scorer \in Scorers
    /\ n_read = 0 /\ pred = None
    /\ wins = 0 /\ losses = 0 /\ pushes = 0 /\ matched = 0
    /\ total_bets = 0 /\ units_won = 0 /\ report = None
    /\ all_games = <<>>
    /\ SplitsIdle
    /\ StatsIdle
    /\ EvalIdle
    /\ EpaIdle
    /\ FeatIdle
    /\ BacktestIdle
    /\ ConfIdle
    /\ OddsIdle

\* One iteration of a loop that keeps wins, losses and pushes: the row r is
\* read and counted as its settlement says.
Count(s, r, result) ==
    /\ pc = "ats_loop"
    /\ scorer = s
    /\ n_read < MaxPreds
    /\ n_read' = n_read + 1
    /\ pred' = r
    /\ wins' = wins + (IF result = "WIN" THEN 1 ELSE 0)
    /\ losses' = losses + (IF result = "LOSS" THEN 1 ELSE 0)
    /\ pushes' = pushes + (IF result = "PUSH" THEN 1 ELSE 0)
    /\ UNCHANGED <<oddsVars, confVars, backtestVars, featVars, epaVars, evalVars, pc, all_games, splitsVars, statsVars, scorer, total_bets,
                   units_won, report>>

wf_iteration ==
    \E r \in LinedRows : Count("wf", r, settle_wf(r)) /\ UNCHANGED matched

bh_iteration ==
    \E r \in LinedRows : Count("bh", r, settle_bh(r)) /\ UNCHANGED matched

cap_iteration ==
    \E r \in AtsRows :
        /\ Count("cap", r, settle_cap(r))
        /\ matched' = matched + (IF settle_cap(r) = "SKIP" THEN 0 ELSE 1)

fix_iteration ==
    \E r \in LinedRows : Count("fix", r, settle_fix(r)) /\ UNCHANGED matched

tts_iteration ==
    \E r \in GameRows : Count("tts", r, settle_tts(r)) /\ UNCHANGED matched

totals_iteration ==
    \E r \in GameRows : Count("totals", r, settle_totals(r)) /\ UNCHANGED matched

\* train_model.calculate_ats_metrics, lines 417-446: a push is not a bet, a
\* win adds one unit and a loss takes 1.1 units.
tm_iteration ==
    \E r \in GameRows :
        LET result == settle_tm(r)
        IN  /\ pc = "ats_loop"
            /\ scorer = "tm"
            /\ n_read < MaxPreds
            /\ n_read' = n_read + 1
            /\ pred' = r
            /\ total_bets' = total_bets + (IF result \in {"WIN", "LOSS"} THEN 1 ELSE 0)
            /\ wins' = wins + (IF result = "WIN" THEN 1 ELSE 0)
            /\ units_won' = units_won + (CASE result = "WIN" -> 10
                                           [] result = "LOSS" -> -11
                                           [] OTHER -> 0)
            /\ UNCHANGED <<oddsVars, confVars, backtestVars, featVars, epaVars, evalVars, pc, all_games, splitsVars, statsVars, scorer, losses,
                           pushes, matched, report>>

\* The end of a loop: the aggregates are computed and reported.
Finish(s, r) ==
    /\ pc = "ats_loop"
    /\ scorer = s
    /\ report' = r
    /\ pc' = "ats_done"
    /\ UNCHANGED <<oddsVars, confVars, backtestVars, featVars, epaVars, evalVars, all_games, splitsVars, statsVars, scorer, n_read, pred, wins,
                   losses, pushes, matched, units_won>>

\* walk_forward_validation lines 132-133: no prediction, no report.
wf_finish ==
    /\ Finish("wf", IF n_read = 0 THEN None ELSE wf_report(wins, losses, pushes))
    /\ total_bets' = wins + losses

\* backtest_historical lines 238-239.
bh_finish ==
    /\ Finish("bh", IF n_read = 0 THEN None ELSE bh_report(wins, losses, pushes))
    /\ total_bets' = wins + losses

cap_finish ==
    /\ Finish("cap", cap_report(wins, losses, pushes))
    /\ total_bets' = wins + losses + pushes

fix_finish ==
    /\ Finish("fix", fix_report(wins, losses, pushes))
    /\ total_bets' = wins + losses

tts_finish ==
    /\ Finish("tts", tts_report(wins, losses, pushes))
    /\ total_bets' = wins + losses

totals_finish ==
    /\ Finish("totals", totals_report(wins, losses, pushes))
    /\ total_bets' = wins + losses

tm_finish ==
    /\ Finish("tm", tm_report(wins, total_bets, units_won))
    /\ UNCHANGED total_bets

AtsFinish ==
    \/ wf_finish \/ bh_finish \/ cap_finish \/ fix_finish
    \/ tts_finish \/ totals_finish \/ tm_finish

NextAts ==
    \/ wf_iteration \/ bh_iteration \/ cap_iteration \/ fix_iteration
    \/ tts_iteration \/ totals_iteration \/ tm_iteration
    \/ AtsFinish

SpecAts == InitAts /\ [][NextAts]_vars

\* Bounds on the counts a loop has reached when it ends.
MaxWins == 55
MaxLosses == 45
MaxPushes == 1

\* The end of a loop over a long list: any counts; train_model's units follow
\* from its wins and losses.
InitAggregates ==
    /\ pc = "ats_loop"
    /\ scorer \in Scorers
    /\ wins \in 0..MaxWins
    /\ losses \in 0..MaxLosses
    /\ pushes \in 0..MaxPushes
    /\ n_read = wins + losses + pushes
    /\ matched = IF scorer = "cap" THEN n_read ELSE 0
    /\ total_bets = IF scorer = "tm" THEN wins + losses ELSE 0
    /\ units_won = IF scorer = "tm" THEN (10 * wins) - (11 * losses) ELSE 0
    /\ pred = None /\ report = None
    /\ all_games = <<>>
    /\ SplitsIdle
    /\ StatsIdle
    /\ EvalIdle
    /\ EpaIdle
    /\ FeatIdle
    /\ BacktestIdle
    /\ ConfIdle
    /\ OddsIdle

SpecAggregates == InitAggregates /\ [][AtsFinish]_vars

----------------------------------------------------------------------------
(* The ATS scorers and the confidence backtest side by side.               *)

InitReports == InitAts \/ InitConfidence

NextReports ==
    \/ NextAts
    \/ NextConfidence

SpecReports == InitReports /\ [][NextReports]_vars

----------------------------------------------------------------------------
(* The ATS scorers as functions of their argument lists: how each loop     *)
(* finds the prediction, the line and the result of the game it settles.   *)

\* wins, losses and pushes with one more result counted.
Tally(result, t) ==
    [wins |-> t.wins + (IF result = "WIN" THEN 1 ELSE 0),
     losses |-> t.losses + (IF result = "LOSS" THEN 1 ELSE 0),
     pushes |-> t.pushes + (IF result = "PUSH" THEN 1 ELSE 0)]

NoTally == [wins |-> 0, losses |-> 0, pushes |-> 0]

\* A plausible defect: the predictions are indexed by the number of games
\* with a line seen so far.
prediction_of_lined(predictions, games, k) ==
    predictions[Len(SelectSeq(SubSeq(games, 1, k), LAMBDA g : g.has_line))]

\* test_true_splits.calculate_ats, lines 107-111: predictions[i] of
\* enumerate(games).
prediction_of(predictions, games, k) == predictions[k]

\* test_true_splits.calculate_ats, lines 107-122, from game k on.
RECURSIVE calculate_ats(_, _, _)
calculate_ats(games, predictions, k) ==
    IF k > Len(games) THEN NoTally
    ELSE IF ~games[k].has_line
         THEN calculate_ats(games, predictions, k + 1)
    ELSE Tally(settle_tts([predicted_spread |->
                               prediction_of(predictions, games, k),
                           vegas_spread |-> games[k].vegas_spread,
                           actual_spread |-> games[k].actual_spread,
                           has_line |-> TRUE, completed |-> TRUE]),
               calculate_ats(games, predictions, k + 1))

\* calculate_ats_performance.py, lines 49-87, from prediction k on: the line
\* is looked up by the prediction's game_id.
RECURSIVE cap_calculate_ats(_, _, _)
cap_calculate_ats(predictions, vegas_spreads, k) ==
    IF k > Len(predictions) THEN NoTally
    ELSE IF \/ ~predictions[k].completed
            \/ predictions[k].game_id \notin DOMAIN vegas_spreads
         THEN cap_calculate_ats(predictions, vegas_spreads, k + 1)
    ELSE Tally(settle_cap([predicted_spread |->
                               predictions[k].predicted_spread,
                           vegas_spread |->
                               vegas_spreads[predictions[k].game_id].spread,
                           actual_spread |-> predictions[k].actual_spread,
                           has_line |-> TRUE,
                           completed |-> predictions[k].completed]),
               cap_calculate_ats(predictions, vegas_spreads, k + 1))

\* walk_forward_validation.calculate_ats_performance, lines 139-150, from
\* prediction k on.
RECURSIVE wf_calculate_ats(_, _)
wf_calculate_ats(predictions, k) ==
    IF k > Len(predictions) THEN NoTally
    ELSE Tally(settle_wf(predictions[k]),
               wf_calculate_ats(predictions, k + 1))

\* compare_models, lines 153-159: one prediction per test game, in order.
tts_predictions(games) ==
    [k \in 1..Len(games) |-> games[k].predicted_spread]

\* calculate_ats_performance.py, lines 18-23: every prediction of the file,
\* with its game_id and its key 'completed' (predict_2025_season.py, lines
\* 290-299, writes one for every game, played or not).
cap_predictions(games) ==
    [k \in 1..Len(games) |->
        [game_id |-> k, completed |-> games[k].completed,
         predicted_spread |-> games[k].predicted_spread,
         actual_spread |-> games[k].actual_spread]]

\* calculate_ats_performance.py, lines 32-37: an entry with the spread and
\* the total of every game of the Vegas file that has lines.
cap_vegas_spreads(games) ==
    [k \in {j \in 1..Len(games) : games[j].has_line} |->
        [spread |-> games[k].vegas_spread, total |-> games[k].total[1]]]

\* lines 34-37: game['lines']['total'] of lines without a total raises
\* KeyError.
cap_vegas_spreads_raises(games) ==
    \E j \in 1..Len(games) : games[j].has_line /\ games[j].total = <<>>

\* walk_forward_validation.py, lines 37-38 and 231-237: a prediction is kept
\* for each test game with a line.
wf_predictions(games) ==
    LET lined == SelectSeq(games, LAMBDA g : g.has_line)
    IN  [k \in 1..Len(lined) |->
            [predicted_spread |-> lined[k].predicted_spread,
             vegas_spread |-> lined[k].vegas_spread,
             actual_spread |-> lined[k].actual_spread,
             has_line |-> TRUE, completed |-> TRUE]]

\* A game of the scored season: a row of ConfRows, the total of its lines in
\* quarter points (<<>> when the lines hold no total) and whether the game is
\* over.  A game that is not over has no actual spread (0 here, not read by
\* calculate_ats_performance.py; the other two scorers read games of the
\* historical file, which has no such key).
ScoringRows ==
    {r \in [predicted_spread : {-4, 0, 4}, vegas_spread : {-2, 0},
            actual_spread : {-4, -1, 0, 4}, has_line : BOOLEAN,
            total : {<<>>, <<180>>}, completed : BOOLEAN] :
        /\ ~r.has_line =>
               /\ r.vegas_spread = 0 /\ r.predicted_spread = 0
               /\ r.actual_spread = 0 /\ r.total = <<>>
        /\ ~r.completed => r.actual_spread = 0}

\* The games of a test season with the model's predictions.
InitScoring ==
    /\ pc = "score_start"
    /\ test_games \in SeqsUpTo(ScoringRows, MaxConfGames)
    /\ confidence_thresholds = <<>>
    /\ threshold_pos = 0
    /\ conf_results = <<>>
    /\ recommendations = None
    /\ all_games = <<>>
    /\ SplitsIdle
    /\ StatsIdle
    /\ AtsIdle
    /\ EvalIdle
    /\ EpaIdle
    /\ FeatIdle
    /\ BacktestIdle
    /\ OddsIdle

\* A scorer s is called, counts t and returns the report r.
Scored(s, t, r) ==
    /\ pc = "score_start"
    /\ scorer' = s
    /\ wins' = t.wins
    /\ losses' = t.losses
    /\ pushes' = t.pushes
    /\ report' = r
    /\ pc' = "score_done"
    /\ UNCHANGED <<all_games, splitsVars, statsVars, evalVars, epaVars,
                   featVars, backtestVars, confVars, oddsVars, n_read, pred,
                   units_won>>

tts_calculate_ats_call ==
    LET t == calculate_ats(test_games, tts_predictions(test_games), 1)
    IN  /\ Scored("tts", t, tts_report(t.wins, t.losses, t.pushes))
        /\ total_bets' = t.wins + t.losses
        /\ UNCHANGED matched

\* calculate_ats_performance.py, lines 18-114, on a Vegas file whose lines
\* all hold a total.
cap_calculate_ats_call ==
    /\ ~cap_vegas_spreads_raises(test_games)
    /\ LET t == cap_calculate_ats(cap_predictions(test_games),
                                  cap_vegas_spreads(test_games), 1)
       IN  /\ Scored("cap", t, cap_report(t.wins, t.losses, t.pushes))
           /\ total_bets' = t.wins + t.losses + t.pushes
           /\ matched' = t.wins + t.losses + t.pushes

\* calculate_ats_performance.py, lines 32-37: the KeyError ends the script
\* before a prediction is scored; nothing is counted or saved.
cap_calculate_ats_raises ==
    /\ pc = "score_start"
    /\ cap_vegas_spreads_raises(test_games)
    /\ pc' = "score_raised"
    /\ UNCHANGED <<all_games, splitsVars, statsVars, atsVars, evalVars,
                   epaVars, featVars, backtestVars, confVars, oddsVars>>

wf_calculate_ats_call ==
    LET t == wf_calculate_ats(wf_predictions(test_games), 1)
    IN  /\ Scored("wf", t,
                  IF wf_predictions(test_games) = <<>> THEN None
                  ELSE wf_report(t.wins, t.losses, t.pushes))
        /\ total_bets' = t.wins + t.losses
        /\ UNCHANGED matched

NextScoring ==
    \/ tts_calculate_ats_call
    \/ cap_calculate_ats_call
    \/ cap_calculate_ats_raises
    \/ wf_calculate_ats_call

SpecScoring == InitScoring /\ [][NextScoring]_vars

----------------------------------------------------------------------------
(* The evaluation scripts as processes. *)

EvalScripts == {"wf", "sbs", "fv", "tts"}

OthersIdle == SplitsIdle /\ StatsIdle /\ AtsIdle /\ EpaIdle /\ FeatIdle
              /\ BacktestIdle /\ ConfIdle /\ OddsIdle

InitEval ==
    /\ pc = "eval_start"
    /\ script \in EvalScripts
    /\ \E raw \in SeqsUpTo(EvalGames, MaxEvalGames) :
           all_games = [k \in 1..Len(raw) |-> EvalWithId(raw[k], k)]
    /\ df = <<>> /\ loop_pos = 0 /\ fit_calls = <<>>
    /\ X_train = <<>> /\ X_test = <<>>
    /\ OthersIdle

\* The data file is read; walk_forward_validate keeps the games with lines.
load_data ==
    /\ pc = "eval_start"
    /\ df' = IF script = "wf" THEN prepare_training_data(all_games) ELSE all_games
    /\ loop_pos' = 1
    /\ pc' = "eval_loop"
    /\ UNCHANGED <<oddsVars, confVars, backtestVars, featVars, epaVars, all_games, splitsVars, statsVars, atsVars, script, fit_calls,
                   X_train, X_test>>

\* The seasons the script tests on, in the order of its loop.
TestSeasons ==
    CASE script = "wf" -> test_seasons
      [] script = "sbs" -> sbs_test_seasons(df)
      [] OTHER -> <<2024>>

TrainSet(ts) ==
    CASE script = "wf" -> wf_train_data(df, ts)
      [] script = "sbs" -> sbs_train_games(df, ts)
      [] OTHER -> holdout_train_games(df)

TestSet(ts) ==
    CASE script = "wf" -> wf_test_data(df, ts)
      [] script = "sbs" -> sbs_test_games(df, ts)
      [] OTHER -> holdout_test_games(df)

InLoop ==
    /\ pc = "eval_loop"
    /\ loop_pos <= Len(TestSeasons)

EvalUnchanged ==
    UNCHANGED <<oddsVars, confVars, backtestVars, featVars, epaVars, all_games, splitsVars, statsVars, atsVars, script, df, X_train, X_test>>

\* model.fit is given no row: XGBoost may refuse the empty training set.
fit_raises ==
    /\ InLoop
    /\ TrainSet(TestSeasons[loop_pos]) = {}
    /\ pc' = "eval_raised"
    /\ UNCHANGED <<loop_pos, fit_calls>>
    /\ EvalUnchanged

\* walk_forward_validate, lines 220-226: the model is fitted, but there is no
\* game of the test season and mean_absolute_error raises on empty arrays.
wf_metric_raises ==
    /\ InLoop
    /\ script = "wf"
    /\ df # <<>>
    /\ LET ts == TestSeasons[loop_pos]
       IN  /\ TestSet(ts) = {}
           /\ fit_calls' = Append(fit_calls, FitCall(ts, TrainSet(ts), TestSet(ts)))
    /\ pc' = "eval_raised"
    /\ UNCHANGED loop_pos
    /\ EvalUnchanged

\* One iteration of the loop over the test seasons (the only one of
\* fresh_validation and compare_models): fit on the training set, predict
\* the test set.
season_iteration ==
    /\ InLoop
    /\ LET ts == TestSeasons[loop_pos]
       IN  /\ script = "wf" => TestSet(ts) # {}
           /\ fit_calls' = Append(fit_calls, FitCall(ts, TrainSet(ts), TestSet(ts)))
    /\ loop_pos' = loop_pos + 1
    /\ UNCHANGED pc
    /\ EvalUnchanged

loop_exit ==
    /\ pc = "eval_loop"
    /\ loop_pos > Len(TestSeasons)
    /\ pc' = "eval_done"
    /\ UNCHANGED <<loop_pos, fit_calls>>
    /\ EvalUnchanged

NextEval ==
    \/ load_data
    \/ fit_raises
    \/ wf_metric_raises
    \/ season_iteration
    \/ loop_exit

SpecEval == InitEval /\ [][NextEval]_vars

----------------------------------------------------------------------------
(* The walk-forward backtests with their predictions:                      *)
(* walk_forward_validation.walk_forward_validate and                       *)
(* backtest_historical.main.                                               *)

\* Bound on the number of games of the data file.
MaxBacktestGames == 4

BacktestWeeks == {1, 2}

\* A game of the data file.  The week of a game without lines is not read
\* after the game is skipped and is 1 here.
BacktestGames ==
    {g \in [season : EvalSeasons, week : BacktestWeeks, has_lines : BOOLEAN] :
        ~g.has_lines => g.week = 1}

BacktestWithId(g, id) ==
    [gameId |-> id, season |-> g.season, week |-> g.week,
     has_lines |-> g.has_lines]

\* What model.predict returns for a game together with the line and the
\* result the file holds for it, in quarter points: a win, a loss, a push.
PredictedRows ==
    {[predicted_spread |-> -1, vegas_spread |-> 0, actual_spread |-> -4],
     [predicted_spread |-> 1, vegas_spread |-> 0, actual_spread |-> -4],
     [predicted_spread |-> 1, vegas_spread |-> 0, actual_spread |-> 1]}

\* walk_forward_validate, line 207, with the order of the frame.
wf_test_rows(frame, test_season) ==
    SelectSeq(frame, LAMBDA g : g.season = test_season)

\* A plausible defect: the predictions are tagged with the season of the
\* first boundary.
PredictionFirstSeason(g, test_season, row) ==
    [season |-> test_seasons[1], week |-> g.week, game_id |-> g.gameId,
     predicted_spread |-> row.predicted_spread,
     vegas_spread |-> row.vegas_spread,
     actual_spread |-> row.actual_spread]

\* walk_forward_validate, lines 229-239, and backtest_season, lines 217-228.
Prediction(g, test_season, row) ==
    [season |-> test_season, week |-> g.week, game_id |-> g.gameId,
     predicted_spread |-> row.predicted_spread,
     vegas_spread |-> row.vegas_spread,
     actual_spread |-> row.actual_spread]

\* The predictions of the games of rows, rows_of giving the row of each id.
PredictionsFor(rows, test_season, rows_of) ==
    [k \in 1..Len(rows) |->
        Prediction(rows[k], test_season, rows_of[rows[k].gameId])]

\* list.sort(key=week), which is stable: g goes behind the games of its week.
RECURSIVE InsertByWeek(_, _)
InsertByWeek(s, g) ==
    IF s = <<>> THEN <<g>>
    ELSE IF g.week < Head(s).week THEN <<g>> \o s
    ELSE <<Head(s)>> \o InsertByWeek(Tail(s), g)

RECURSIVE sort_by_week(_)
sort_by_week(s) ==
    IF s = <<>> THEN <<>>
    ELSE InsertByWeek(sort_by_week(SubSeq(s, 1, Len(s) - 1)), s[Len(s)])

\* backtest_season, lines 183-200: the games of the season by week, those
\* without lines skipped.
backtest_season_games(games, test_season) ==
    LET season_games ==
            sort_by_week(SelectSeq(games, LAMBDA g : g.season = test_season))
    IN  SelectSeq(season_games, LAMBDA g : g.has_lines)

\* calculate_ats_performance of either script on a list that is not empty:
\* the three counters of its loop.
ats_performance(settled) ==
    LET n(result) == Cardinality({k \in 1..Len(settled) : settled[k] = result})
    IN  [wins |-> n("WIN"), losses |-> n("LOSS"), pushes |-> n("PUSH")]

\* The settlement of each prediction of the list by either script.
wf_settled(predictions) ==
    [k \in 1..Len(predictions) |-> settle_wf(predictions[k])]

bh_settled(predictions) ==
    [k \in 1..Len(predictions) |-> settle_bh(predictions[k])]

\* results_by_season[test_season] = ats.
WithResult(results, test_season, ats) ==
    [t \in DOMAIN results \cup {test_season} |->
        IF t = test_season THEN ats ELSE results[t]]

BacktestScripts == {"wf", "bh"}

InitBacktest ==
    /\ pc = "bt_start"
    /\ script \in BacktestScripts
    /\ \E raw \in SeqsUpTo(BacktestGames, MaxBacktestGames) :
           all_games = [k \in 1..Len(raw) |-> BacktestWithId(raw[k], k)]
    /\ df = <<>> /\ loop_pos = 0 /\ fit_calls = <<>>
    /\ X_train = <<>> /\ X_test = <<>>
    /\ SplitsIdle
    /\ StatsIdle
    /\ AtsIdle
    /\ EpaIdle
    /\ FeatIdle
    /\ BacktestIdle
    /\ ConfIdle
    /\ OddsIdle

BacktestUnchanged ==
    UNCHANGED <<oddsVars, confVars, all_games, splitsVars, statsVars, atsVars, epaVars, featVars,
                script, X_train, X_test>>

\* walk_forward_validate, lines 182-199: the frame of the games with lines.
wf_load ==
    /\ pc = "bt_start"
    /\ script = "wf"
    /\ df' = prepare_training_data(all_games)
    /\ loop_pos' = 1
    /\ pc' = "bt_loop"
    /\ UNCHANGED <<fit_calls, backtestVars>>
    /\ BacktestUnchanged

\* backtest_historical.main, lines 286-295: the model is read from the
\* pickle file; load_historical_data takes min() of the seasons and raises
\* on a file without games.
bh_load ==
    /\ pc = "bt_start"
    /\ script = "bh"
    /\ model' = [origin |-> "pickle", fit_no |-> 0]
    /\ IF all_games = <<>>
       THEN pc' = "bt_raised" /\ UNCHANGED <<df, loop_pos>>
       ELSE pc' = "bt_loop" /\ df' = all_games /\ loop_pos' = 1
    /\ UNCHANGED <<fit_calls, all_predictions, results_by_season, overall_ats>>
    /\ BacktestUnchanged

\* The seasons the backtest goes over: backtest_historical.main line 295,
\* walk_forward_validate line 199.
BacktestSeasons ==
    IF script = "bh" THEN SortedSeq({g.season : g \in Range(df)})
    ELSE test_seasons

InBacktestLoop ==
    /\ pc = "bt_loop"
    /\ loop_pos <= Len(BacktestSeasons)

\* walk_forward_validate, lines 206-219: no game has lines and the frame has
\* no 'season' column, or model.fit is given no row and may refuse it.
wf_fit_raises ==
    /\ InBacktestLoop
    /\ script = "wf"
    /\ wf_train_data(df, BacktestSeasons[loop_pos]) = {}
    /\ pc' = "bt_raised"
    /\ UNCHANGED <<df, loop_pos, fit_calls, backtestVars>>
    /\ BacktestUnchanged

\* walk_forward_validate, lines 218-225: the model is fitted, but the test
\* season has no game and mean_absolute_error raises on empty arrays.
wf_no_test_game ==
    /\ InBacktestLoop
    /\ script = "wf"
    /\ df # <<>>
    /\ LET ts == BacktestSeasons[loop_pos]
       IN  /\ wf_test_rows(df, ts) = <<>>
           /\ fit_calls' = Append(fit_calls,
                                  FitCall(ts, wf_train_data(df, ts), {}))
    /\ model' = [origin |-> "fit", fit_no |-> Len(fit_calls')]
    /\ pc' = "bt_raised"
    /\ UNCHANGED <<df, loop_pos, all_predictions, results_by_season, overall_ats>>
    /\ BacktestUnchanged

\* walk_forward_validate, lines 201-248: one test season.
wf_season ==
    /\ InBacktestLoop
    /\ script = "wf"
    /\ LET ts == BacktestSeasons[loop_pos]
           train_data == wf_train_data(df, ts)
           test_data == wf_test_rows(df, ts)
       IN  /\ test_data # <<>>
           /\ fit_calls' = Append(fit_calls,
                                  FitCall(ts, train_data, Range(test_data)))
           /\ model' = [origin |-> "fit", fit_no |-> Len(fit_calls')]
           /\ \E rows_of \in [{g.gameId : g \in Range(test_data)} -> PredictedRows] :
                  all_predictions' =
                      all_predictions \o PredictionsFor(test_data, ts, rows_of)
           /\ LET season_preds ==
                      SelectSeq(all_predictions', LAMBDA p : p.season = ts)
              IN  results_by_season' =
                      IF season_preds = <<>> THEN results_by_season
                      ELSE WithResult(results_by_season, ts,
                                      ats_performance(wf_settled(season_preds)))
    /\ loop_pos' = loop_pos + 1
    /\ UNCHANGED <<pc, df, overall_ats>>
    /\ BacktestUnchanged

\* backtest_historical.main, lines 297-304: one season, predicted by the
\* model that was loaded.
bh_season ==
    /\ InBacktestLoop
    /\ script = "bh"
    /\ LET ts == BacktestSeasons[loop_pos]
           lined == backtest_season_games(df, ts)
       IN  \E rows_of \in [{g.gameId : g \in Range(lined)} -> PredictedRows] :
               LET preds == PredictionsFor(lined, ts, rows_of)
               IN  /\ all_predictions' = all_predictions \o preds
                   /\ results_by_season' =
                          IF preds = <<>> THEN results_by_season
                          ELSE WithResult(results_by_season, ts,
                                          ats_performance(bh_settled(preds)))
    /\ loop_pos' = loop_pos + 1
    /\ UNCHANGED <<pc, df, fit_calls, model, overall_ats>>
    /\ BacktestUnchanged

\* The overall record after the loop: walk_forward_validate line 255,
\* backtest_historical.main line 311.
overall_results ==
    /\ pc = "bt_loop"
    /\ loop_pos > Len(BacktestSeasons)
    /\ overall_ats' =
           IF all_predictions = <<>> THEN None
           ELSE IF script = "wf"
           THEN ats_performance(wf_settled(all_predictions))
           ELSE ats_performance(bh_settled(all_predictions))
    /\ pc' = "bt_done"
    /\ UNCHANGED <<df, loop_pos, fit_calls, model, all_predictions,
                   results_by_season>>
    /\ BacktestUnchanged

NextBacktest ==
    \/ wf_load
    \/ bh_load
    \/ wf_fit_raises
    \/ wf_no_test_game
    \/ wf_season
    \/ bh_season
    \/ overall_results

SpecBacktest == InitBacktest /\ [][NextBacktest]_vars

\* walk_forward_validate alone.  It reads the week of a game only to copy it
\* into the prediction; the games are all of one week here.
InitWalkForward ==
    /\ InitBacktest
    /\ script = "wf"
    /\ \A g \in Range(all_games) : g.week = 1

NextWalkForward ==
    \/ wf_load
    \/ wf_fit_raises
    \/ wf_no_test_game
    \/ wf_season
    \/ overall_results

SpecWalkForward == InitWalkForward /\ [][NextWalkForward]_vars

\* train_model.main, lines 526-527: the frame create_features_dataframe makes
\* of the data file, one row per game in file order; a file without games
\* gives a frame without rows and without columns.
InitTemporalSplit ==
    /\ pc = "tm_start"
    /\ script = "tm"
    /\ \E raw \in SeqsUpTo(SplitSlots, MaxRows) :
           df = [k \in 1..Len(raw) |-> SplitRow(raw[k], k)]
    /\ all_games = <<>>
    /\ loop_pos = 0 /\ fit_calls = <<>>
    /\ X_train = <<>> /\ X_test = <<>>
    /\ OthersIdle

\* main, line 530: prepare_training_data selects the feature columns of the
\* frame (line 245), one row of X per row of df.
tm_prepare_training_data ==
    /\ pc = "tm_start"
    /\ df # <<>>
    /\ pc' = "tsplit_start"
    /\ UNCHANGED <<oddsVars, confVars, backtestVars, featVars, epaVars, all_games, splitsVars, statsVars, atsVars, evalVars>>

\* Line 245 on the frame of a file without games: df[feature_cols] raises
\* KeyError, the columns do not exist; main has no handler and nothing is
\* split.
tm_prepare_training_data_raises ==
    /\ pc = "tm_start"
    /\ df = <<>>
    /\ pc' = "tm_raised"
    /\ UNCHANGED <<oddsVars, confVars, backtestVars, featVars, epaVars, all_games, splitsVars, statsVars, atsVars, evalVars>>

\* main, lines 532-533: X has the rows of df.
temporal_split_call ==
    /\ pc = "tsplit_start"
    /\ X_train' = temporal_train_test_split(df, df).X_train
    /\ X_test' = temporal_train_test_split(df, df).X_test
    /\ pc' = "tsplit_done"
    /\ UNCHANGED <<oddsVars, confVars, backtestVars, featVars, epaVars, all_games, splitsVars, statsVars, atsVars, script, df, loop_pos,
                   fit_calls>>

NextTemporalSplit ==
    \/ tm_prepare_training_data
    \/ tm_prepare_training_data_raises
    \/ temporal_split_call

SpecTemporalSplit == InitTemporalSplit /\ [][NextTemporalSplit]_vars

----------------------------------------------------------------------------
(* test_predictions.split_train_test, used on the data file the model was  *)
(* trained on by train_model.main.                                         *)

\* A plausible defect: the training size is rounded up instead of truncated.
train_size_rounded_up(games) == ((Len(games) * 8) + 9) \div 10

\* int(total_games * (1 - test_split)) with test_split = 0.2, lines 48-49.
train_size(games) == (Len(games) * 8) \div 10

\* split_train_test, lines 48-58.
split_train_test(games) ==
    [train_games |-> SubSeq(games, 1, train_size(games)),
     test_games |-> SubSeq(games, train_size(games) + 1, Len(games))]

\* train_model.main, lines 526-527, and test_predictions.main, line 282: the
\* same data file, in file order, is the frame and the game list.
InitTestSplit ==
    /\ pc = "tm_start"
    /\ script = "tm"
    /\ \E raw \in SeqsUpTo(SplitSlots, MaxRows) :
           df = [k \in 1..Len(raw) |-> SplitRow(raw[k], k)]
    /\ all_games = df
    /\ loop_pos = 0 /\ fit_calls = <<>>
    /\ X_train = <<>> /\ X_test = <<>>
    /\ OthersIdle

\* test_predictions.main, lines 282-285: only the test games are used.
split_train_test_call ==
    /\ pc = "tsplit_done"
    /\ test_games' = split_train_test(all_games).test_games
    /\ pc' = "tpred_split"
    /\ UNCHANGED <<all_games, splitsVars, statsVars, atsVars, evalVars,
                   epaVars, featVars, backtestVars, oddsVars,
                   confidence_thresholds, threshold_pos, conf_results,
                   recommendations>>

NextTestSplit ==
    \/ tm_prepare_training_data
    \/ tm_prepare_training_data_raises
    \/ temporal_split_call
    \/ split_train_test_call

SpecTestSplit == InitTestSplit /\ [][NextTestSplit]_vars

----------------------------------------------------------------------------
(* Both scripts, for the properties that span them. *)

InitSnapshots == InitSplits \/ InitStats \/ InitAnyArguments

NextSnapshots == NextSplits \/ NextStats

SpecSnapshots == InitSnapshots /\ [][NextSnapshots]_vars

----------------------------------------------------------------------------
(* Properties of calculate_splits_and_streaks *)

\* all_games without the other games that the (season, week) of g does not
\* precede strictly... that is, g and the games of strictly earlier weeks.
KeepEarlierWeeks(games, g) ==
    SelectSeq(games, LAMBDA h : h.gameId = g.gameId
                                \/ LexBefore(h, g.season, g.week))

\* all_games without the games that kick off strictly after g.
KeepUpToDate(games, g) == SelectSeq(games, LAMBDA h : h.date <= g.date)

----------------------------------------------------------------------------
(* Properties of the statistics functions *)

\* The positions of the games of team in the window InWin.
Window(team, games, InWin(_)) ==
    {k \in 1..Len(games) : Played(games[k], team) /\ InWin(games[k])}

RECURSIVE SumOver(_, _)
SumOver(S, f) ==
    IF S = {} THEN 0
    ELSE LET x == CHOOSE y \in S : TRUE
         IN  f[x] + SumOver(S \ {x}, f)

\* The statistics of team over the games at the positions W, stated on the
\* set: counts and sums over W, and the last three games of W in file order.
StatsOver(team, games, W, TeamWon(_)) ==
    LET n == Cardinality(W)
        pf == SumOver(W, [k \in W |-> PointsFor(games[k], team)])
        pa == SumOver(W, [k \in W |-> PointsAgainst(games[k], team)])
        ppg == IF n = 0 THEN Num(22) ELSE Div(pf, n)
        pag == IF n = 0 THEN Num(22) ELSE Div(pa, n)
        order == Ascending(W)
    IN  [winPct |-> IF n = 0 THEN Half
                    ELSE Div(Cardinality({k \in W : TeamWon(games[k])}), n),
         ppg |-> ppg,
         pag |-> pag,
         last3_pf |-> Last3([j \in 1..n |-> Num(PointsFor(games[order[j]], team))], ppg),
         last3_pa |-> Last3([j \in 1..n |-> Num(PointsAgainst(games[order[j]], team))], pag)]

\* The four statistics of C2 as each function returns them.
HistView(r) ==
    [winPct |-> r.winPct, ppg |-> r.ppg, pag |-> r.pag,
     last3_pf |-> r.last3_pf, last3_pa |-> r.last3_pa]

FetchView(r) ==
    [winPct |-> r.winPct, ppg |-> r.ppg, pag |-> r.pag,
     last3_pf |-> r.last3Games.pointsScored,
     last3_pa |-> r.last3Games.pointsAllowed]

\* The win rule of each function (they differ on a game without a winner).
HistWon(g) == IF g.home = team_name THEN HomeWon(g) ELSE ~HomeWon(g)
FetchWon(g) == PointsFor(g, team_name) > PointsAgainst(g, team_name)

\* The games in which the team played (it is one of the two sides and the
\* game is over) and whose (season, week) is before the cutoff.
LexWindow ==
    Window(team_name, all_games,
           LAMBDA g : g.completed /\ LexBefore(g, season, week))

\* C2: on the lists their callers hand them, calculate_team_stats_historical
\* and fetch_team_stats compute winPct, ppg, pag and the last-3 values from
\* exactly the games in which the team played and whose (season, week) is
\* strictly before the cutoff (season, week) in lexicographic order: no such
\* game is left out and no other game is used.
C2_GamesBeforeCutoff ==
    /\ pc = "hist_done" =>
          HistView(hist_stats) = StatsOver(team_name, all_games, LexWindow, HistWon)
    /\ pc = "fetch_done" =>
          FetchView(fetch_stats) = StatsOver(team_name, all_games, LexWindow, FetchWon)

\* fetch_team_stats has answered for a team of the third game of the list:
\* the team played the first game, the second game is not the team's, and
\* the third is the game of the cutoff week.
C2_Witness ==
    /\ pc = "fetch_done"
    /\ Len(all_games) = 3
    /\ Played(all_games[1], team_name) /\ all_games[1].completed
    /\ ~Played(all_games[2], team_name)
    /\ all_games[3].week = week
    /\ fetch_stats.winPct \in {Num(0), Num(1)}

----------------------------------------------------------------------------
(* Defaults *)

DefaultSplits == [homeWinPct |-> Half, roadWinPct |-> Half, streak |-> 0]

\* The team plays no game that is processed before position p.
FirstGameOf(team, p) ==
    \A q \in 1..(p - 1) : ~Played(sorted_games[q], team)

\* C10: a team with no earlier game gets homeWinPct = roadWinPct = 0.5 and
\* streak = 0 from calculate_splits_and_streaks (earlier: processed before the
\* game, in kick-off order), and winPct = 0.5 from
\* calculate_team_stats_historical (no game of the season in an earlier week)
\* and from fetch_team_stats (no completed game in an earlier week).
C10_DefaultSnapshot ==
    /\ pc \in {"splits_loop", "splits_done"} =>
          \A p \in 1..i :
              LET g == sorted_games[p]
              IN  /\ FirstGameOf(g.home, p) =>
                        game_splits[g.gameId].homeTeam = DefaultSplits
                  /\ FirstGameOf(g.away, p) =>
                        game_splits[g.gameId].awayTeam = DefaultSplits
    /\ pc = "hist_done" =>
          ((\A k \in 1..Len(all_games) :
                ~(Played(all_games[k], team_name)
                  /\ all_games[k].season = season /\ all_games[k].week < week))
           => hist_stats.winPct = Half)
    /\ pc = "fetch_done" =>
          ((\A k \in 1..Len(all_games) :
                ~(Played(all_games[k], team_name)
                  /\ all_games[k].completed /\ all_games[k].week < week))
           => fetch_stats.winPct = Half)

\* A team's first game is recorded after other teams' results, and the
\* statistics functions have answered for a team whose only games are at or
\* after the cutoff.
C10_Witness ==
    \/ /\ pc = "splits_done"
       /\ i = 2
       /\ FirstGameOf(sorted_games[2].home, 2)
       /\ ~FirstGameOf(sorted_games[2].away, 2)
    \/ /\ pc = "fetch_done"
       /\ \E k \in 1..Len(all_games) : Played(all_games[k], team_name)
       /\ \A k \in 1..Len(all_games) : all_games[k].week >= week

----------------------------------------------------------------------------
(* The settlement of a bet. *)

\* The loop has just read a row that has a line and a result.
ReadsSettledRow ==
    /\ n_read' = n_read + 1
    /\ pred'.has_line
    /\ pred'.completed

OffTheLine(r) == Abs(r.actual_spread - r.vegas_spread)

\* C6: in the loops that report pushes (walk_forward_validation,
\* calculate_ats_performance.py, fix_ats_calculation, test_true_splits) a game
\* is counted as a push if and only if abs(actual - line) < 0.5, whatever the
\* prediction is.
C6_PushIffWithinHalfPoint ==
    [][(scorer \in {"wf", "cap", "fix", "tts"} /\ ReadsSettledRow)
        => ((pushes' = pushes + 1) <=> (OffTheLine(pred') < PushTolerance))]_vars

\* Reached: a loop has counted a push whose prediction was on the other side
\* of the line, and then a game exactly half a point off the line as a bet.
C6_Witness ==
    /\ scorer \in {"wf", "cap", "fix", "tts"}
    /\ n_read = 2
    /\ pushes = 1
    /\ wins + losses = 1
    /\ pred.has_line /\ pred.completed
    /\ OffTheLine(pred) = PushTolerance

\* C7: for a game that is not a push the boolean loops count a WIN exactly
\* when sign(predicted - line) = sign(actual - line), and a LOSS otherwise.
C7_Original ==
    [][(/\ scorer \in {"wf", "bh", "cap"}
        /\ ReadsSettledRow
        /\ OffTheLine(pred') >= PushTolerance)
        => LET same == Sign(pred'.predicted_spread - pred'.vegas_spread)
                       = Sign(pred'.actual_spread - pred'.vegas_spread)
           IN  /\ (wins' = wins + 1) <=> same
               /\ (losses' = losses + 1) <=> ~same]_vars

\* C8: the boolean form, the product form (spread and over/under) and the
\* pick-based form give the same outcome for the row that was read.
C8_Original ==
    (n_read > 0 /\ pred.has_line /\ pred.completed)
        => /\ settle_wf(pred) = settle_fix(pred)
           /\ settle_fix(pred) = settle_totals(pred)
           /\ settle_totals(pred) = settle_tm(pred)

----------------------------------------------------------------------------
(* The aggregates. *)

\* C9: with wins + losses > 0, win_rate = 100 * wins / (wins + losses) (the
\* pushes are not in the denominator), profit = 100 * wins - 110 * losses and
\* roi = 100 * profit / (110 * (wins + losses)); train_model's unit-based ROI
\* has the same value; 55 wins and 45 losses give 55%, 550 and 5%.
C9_Aggregates ==
    (pc = "ats_done" /\ wins + losses > 0)
        => LET profit == (100 * wins) - (110 * losses)
               roi == Div(100 * profit, 110 * (wins + losses))
           IN  /\ scorer # "tm"
                    => /\ report.win_rate = Div(100 * wins, wins + losses)
                       /\ report.profit = profit
                       /\ report.roi = roi
               /\ scorer = "tm" => report.roi = roi
               /\ (wins = 55 /\ losses = 45)
                    => /\ report.roi = Num(5)
                       /\ scorer # "tm"
                            => /\ report.win_rate = Num(55)
                               /\ report.profit = 550

\* Reached: 55 wins, 45 losses and a push have been reported.
C9_Witness ==
    /\ pc = "ats_done"
    /\ scorer = "cap"
    /\ wins = 55 /\ losses = 45 /\ pushes = 1
    /\ report.total_bets = 101
    /\ report.win_rate = Num(55)

----------------------------------------------------------------------------
(* The evaluation splits. *)

\* C3: in walk_forward_validate every training set holds games of seasons
\* before the test season only, and the training set of each test season is a
\* strict superset of the training set of the test season before it.
C3_WalkForwardOrdering ==
    script = "wf" =>
        /\ \A k \in DOMAIN fit_calls :
               /\ fit_calls[k].test_season = test_seasons[k]
               /\ \A g \in fit_calls[k].train : g.season < fit_calls[k].test_season
        /\ \A k \in DOMAIN fit_calls :
               k > 1 => /\ fit_calls[k - 1].train \subseteq fit_calls[k].train
                        /\ fit_calls[k - 1].train # fit_calls[k].train

\* Reached: the three test seasons have been evaluated, each on a training
\* set that is not empty.
C3_Witness ==
    /\ script = "wf"
    /\ pc = "eval_done"
    /\ Len(fit_calls) = 3
    /\ fit_calls[1].train # {}

\* C4: in the scripts that hold out a season (season_by_season,
\* fresh_validation, compare_models) the training set used for held-out season
\* S has no game of S and no game of a later season.
C4_Original ==
    script \in {"sbs", "fv", "tts"} =>
        \A k \in DOMAIN fit_calls :
            \A g \in fit_calls[k].train : g.season < fit_calls[k].test_season

\* C5: for any order of the rows, the partitions of temporal_train_test_split
\* are disjoint, cover all games, and no training game has a (season, week)
\* later than that of a test game.
C5_Original ==
    pc = "tsplit_done" =>
        /\ Range(X_train) \cap Range(X_test) = {}
        /\ Range(X_train) \cup Range(X_test) = Range(df)
        /\ \A a \in Range(X_train) : \A b \in Range(X_test) : ~RowBefore(b, a)

----------------------------------------------------------------------------
(* Streaks. *)

\* The result of game g for a team that played it, from the final score.
ResultFor(team, g) ==
    LET mine == IF g.home = team THEN g.homeScore ELSE g.awayScore
        theirs == IF g.home = team THEN g.awayScore ELSE g.homeScore
    IN  IF mine > theirs THEN "W" ELSE IF mine < theirs THEN "L" ELSE "T"

\* The results of the team's games that kicked off before date d, oldest
\* first.
RECURSIVE ResultsBefore(_, _)
ResultsBefore(team, d) ==
    IF d <= 1 THEN <<>>
    ELSE LET played == {g \in Range(all_games) :
                            g.date = d - 1 /\ team \in {g.home, g.away}}
         IN  IF played = {} THEN ResultsBefore(team, d - 1)
             ELSE Append(ResultsBefore(team, d - 1),
                         ResultFor(team, CHOOSE g \in played : TRUE))

\* The number of equal results at the end of a sequence of results.
RECURSIVE RunLength(_)
RunLength(rs) ==
    IF Len(rs) <= 1 THEN Len(rs)
    ELSE IF rs[Len(rs) - 1] = rs[Len(rs)]
         THEN 1 + RunLength(SubSeq(rs, 1, Len(rs) - 1))
    ELSE 1

SignedRun(rs) ==
    IF rs = <<>> THEN 0
    ELSE IF rs[Len(rs)] = "W" THEN RunLength(rs) ELSE -RunLength(rs)

\* The streak recorded for team in the entry of game g.
RecordedStreak(team, g) ==
    IF g.home = team THEN game_splits[g.gameId].homeTeam.streak
    ELSE game_splits[g.gameId].awayTeam.streak

\* C11: the streak recorded for a team's next game is +k after k wins that
\* follow a loss (or nothing) and -k after k such losses; [W,W,L,W] gives +1
\* and [W,W,W] gives +3.
C11_StreakIsSignedRun ==
    \A g \in Range(all_games) :
        g.gameId \in DOMAIN game_splits =>
            \A team \in {g.home, g.away} :
                LET rs == ResultsBefore(team, g.date)
                IN  /\ RecordedStreak(team, g) = SignedRun(rs)
                    /\ rs = <<"W", "W", "L", "W">> => RecordedStreak(team, g) = 1
                    /\ rs = <<"W", "W", "W">> => RecordedStreak(team, g) = 3

\* Reached: a fifth game is recorded for a team whose results so far are
\* W, W, L, W, from a file that lists the latest game first.
C11_Witness ==
    /\ pc = "splits_done"
    /\ Len(all_games) = 5
    /\ all_games[1].date = 5
    /\ \E g \in Range(all_games) :
           /\ g.date = 5
           /\ g.home = "Dallas Cowboys"
           /\ ResultsBefore("Dallas Cowboys", 5) = <<"W", "W", "L", "W">>
           /\ RecordedStreak("Dallas Cowboys", g) = 1

----------------------------------------------------------------------------
(* Home and road records. *)

\* The games that kicked off before g in which team was at home (on the road).
HomeGamesBefore(team, g) ==
    {h \in Range(all_games) : h.date < g.date /\ h.home = team}

RoadGamesBefore(team, g) ==
    {h \in Range(all_games) : h.date < g.date /\ h.away = team}

HomeWins(S) == {h \in S : h.homeScore > h.awayScore}

PctOf(W, S) == IF S = {} THEN Half ELSE Div(Cardinality(W), Cardinality(S))

\* The splits recorded for team in the entry of game g.
RecordedSplits(team, g) ==
    IF g.home = team THEN game_splits[g.gameId].homeTeam
    ELSE game_splits[g.gameId].awayTeam

\* The games processed so far.
Processed == {sorted_games[p] : p \in 1..i}

CountersFrame ==
    \A t \in Teams :
        LET at_home == {h \in Processed : h.home = t}
            on_road == {h \in Processed : h.away = t}
        IN  /\ team_history[t].home_wins = Cardinality(HomeWins(at_home))
            /\ team_history[t].home_losses = Cardinality(at_home \ HomeWins(at_home))
            /\ team_history[t].road_wins = Cardinality(on_road \ HomeWins(on_road))
            /\ team_history[t].road_losses = Cardinality(HomeWins(on_road))

SplitsFromOwnSubsets ==
    \A g \in Processed : \A team \in {g.home, g.away} :
        LET at_home == HomeGamesBefore(team, g)
            on_road == RoadGamesBefore(team, g)
        IN  /\ RecordedSplits(team, g).homeWinPct = PctOf(HomeWins(at_home), at_home)
            /\ RecordedSplits(team, g).roadWinPct
                   = PctOf(on_road \ HomeWins(on_road), on_road)

\* No team has two games in one (season, week).
OncePerWeek(team) ==
    \A g, h \in Range(all_games) :
        (g.gameId # h.gameId /\ g.season = h.season /\ g.week = h.week)
            => ~(team \in {g.home, g.away} /\ team \in {h.home, h.away})

\* The game enriched last.
EnrichedGame ==
    CHOOSE h \in Range(all_games) : h.gameId = advanced_metrics.gameId

\* The records enrich_game stored for a team of the game are the splits
\* recorded for it.
SideAgrees(side, team) ==
    LET recorded == RecordedSplits(team, EnrichedGame)
    IN  /\ side.home_record_pct = recorded.homeWinPct
        /\ side.away_record_pct = recorded.roadWinPct

RecordsAgree ==
    /\ SideAgrees(advanced_metrics.home, EnrichedGame.home)
    /\ SideAgrees(advanced_metrics.away, EnrichedGame.away)

----------------------------------------------------------------------------
(* The last-3 lists. *)

\* The points the team scored (allowed) in its games of the weeks before w
\* of the season, oldest first.
RECURSIVE PointsBefore(_, _, _)
PointsBefore(team, w, scored) ==
    IF w <= 1 THEN <<>>
    ELSE LET played == {g \in Range(all_games) :
                            g.week = w - 1 /\ team \in {g.home, g.away}}
             g == CHOOSE h \in played : TRUE
             mine == IF g.home = team THEN g.homeScore ELSE g.awayScore
             theirs == IF g.home = team THEN g.awayScore ELSE g.homeScore
         IN  IF played = {} THEN PointsBefore(team, w - 1, scored)
             ELSE Append(PointsBefore(team, w - 1, scored),
                         IF scored THEN mine ELSE theirs)

\* sum(l) / 3 of a list of three values.
Avg3(l) ==
    LET total == FracAdd(FracAdd(l[1], l[2]), l[3])
    IN  Div(total[1], 3 * total[2])

\* last3 is what the claim says for the points pts and the average avg.
Last3AsClaimed(last3, pts, avg) ==
    /\ Len(last3) = 3
    /\ Len(pts) >= 3 =>
           last3 = [k \in 1..3 |-> Num(pts[Len(pts) - 3 + k])]
    /\ Len(pts) \in {1, 2} =>
           /\ avg = Div(SumSeq(pts), Len(pts))
           /\ last3 = [k \in 1..3 |-> IF k <= Len(pts) THEN Num(pts[k]) ELSE avg]
           /\ Avg3(last3) = avg

\* C13: the last-3 lists hold the 3 most recent games before the cutoff,
\* oldest first; with 1 or 2 prior games they are padded with the team's own
\* average to date (ppg, pag), so that their average is that average.
C13_Last3Padding ==
    /\ pc = "hist_done" =>
           /\ Last3AsClaimed(hist_stats.last3_pf,
                             PointsBefore(team_name, week, TRUE), hist_stats.ppg)
           /\ Last3AsClaimed(hist_stats.last3_pa,
                             PointsBefore(team_name, week, FALSE), hist_stats.pag)
    /\ pc = "fetch_done" =>
           /\ Last3AsClaimed(fetch_stats.last3Games.pointsScored,
                             PointsBefore(team_name, week, TRUE), fetch_stats.ppg)
           /\ Last3AsClaimed(fetch_stats.last3Games.pointsAllowed,
                             PointsBefore(team_name, week, FALSE), fetch_stats.pag)

\* Reached: a team with two prior games of 3 and 2 points has its list padded
\* with 5/2.
C13_Witness ==
    /\ pc = "hist_done"
    /\ PointsBefore(team_name, week, TRUE) = <<3, 2>>
    /\ hist_stats.last3_pf = <<Num(3), Num(2), <<5, 2>>>>

----------------------------------------------------------------------------
(* Populated snapshots. *)

ScalarStats ==
    {"winPct", "ppg", "pag", "yardsPerGame", "yardsAllowedPerGame",
     "turnoverDiff", "restDays"}

\* A number: a fraction with a positive denominator.
IsNumber(x) == x[1] \in Int /\ x[2] \in Nat \ {0}

ThreeNumbers(l) == Len(l) = 3 /\ \A k \in 1..3 : IsNumber(l[k])

\* C14: for every team, cutoff and game list (a team without a prior game and
\* a team that is not in the list included) both functions return a snapshot
\* with winPct, ppg, pag, yardsPerGame, yardsAllowedPerGame, turnoverDiff,
\* restDays and two last-3 lists of exactly three values.
C14_PopulatedSnapshot ==
    /\ pc = "hist_done" =>
           /\ DOMAIN hist_stats = ScalarStats \cup {"last3_pf", "last3_pa"}
           /\ \A f \in ScalarStats : IsNumber(hist_stats[f])
           /\ ThreeNumbers(hist_stats.last3_pf)
           /\ ThreeNumbers(hist_stats.last3_pa)
    /\ pc = "fetch_done" =>
           /\ DOMAIN fetch_stats = ScalarStats \cup {"last3Games"}
           /\ \A f \in ScalarStats : IsNumber(fetch_stats[f])
           /\ DOMAIN fetch_stats.last3Games = {"pointsScored", "pointsAllowed"}
           /\ ThreeNumbers(fetch_stats.last3Games.pointsScored)
           /\ ThreeNumbers(fetch_stats.last3Games.pointsAllowed)

\* Reached: the historical function has answered for a team that is in none
\* of the games of the list.
C14_Witness ==
    /\ pc = "hist_done"
    /\ Len(all_games) >= 2
    /\ \A k \in 1..Len(all_games) : ~Played(all_games[k], team_name)
    /\ ThreeNumbers(hist_stats.last3_pf)


----------------------------------------------------------------------------
\* The feature list of the predictor read by column name.
Column(vector, name) ==
    vector[CHOOSE k \in 1..Len(feature_cols) : feature_cols[k] = name]

\* The differentials of one vector against its own verbatim features.
ScoreDifferentialsOf(col(_)) ==
    /\ col("ppg_differential") = FracSub(col("home_ppg"), col("away_ppg"))
    /\ col("pag_differential") = FracSub(col("away_pag"), col("home_pag"))
    /\ col("winPct_differential")
           = FracSub(col("home_winPct"), col("away_winPct"))
    /\ col("yards_differential")
           = FracSub(col("home_yards_pg"), col("away_yards_pg"))
    /\ col("turnover_differential")
           = FracSub(col("home_turnover_diff"), col("away_turnover_diff"))

RestDifferentialOf(col(_)) ==
    col("rest_days_diff")
        = FracSub(col("home_rest_days"), col("away_rest_days"))

\* C15: in each of the three feature builders every differential feature,
\* rest_days_diff included, equals the difference of the verbatim features
\* of the same vector.
C15_Original ==
    /\ pc \in {"feat_df", "feat_X", "feat_done"} =>
           LET col(name) == train_record[name]
           IN  ScoreDifferentialsOf(col) /\ RestDifferentialOf(col)
    /\ pc = "feat_done" =>
           LET col(name) == Column(features, name)
           IN  ScoreDifferentialsOf(col) /\ RestDifferentialOf(col)
    /\ pc = "wf_feat_done" =>
           LET col(name) == wf_row[name]
           IN  ScoreDifferentialsOf(col) /\ RestDifferentialOf(col)

\* The part of C15 the builders do satisfy: the five score differentials.
C15_ScoreDifferentials ==
    /\ pc \in {"feat_df", "feat_X", "feat_done"} =>
           LET col(name) == train_record[name] IN ScoreDifferentialsOf(col)
    /\ pc = "feat_done" =>
           LET col(name) == Column(features, name) IN ScoreDifferentialsOf(col)
    /\ pc = "wf_feat_done" =>
           LET col(name) == wf_row[name] IN ScoreDifferentialsOf(col)

\* C16: the first 33 features of the training row equal, position by
\* position, the list the predictor extracts from the same game.
C16_Original ==
    pc = "feat_done" =>
        /\ Len(features) = 33
        /\ \A k \in 1..33 : X_row[k] = features[k]

\* The positions of the vector other than the four last-3 averages.
Last3Positions == {13, 14, 15, 16}

\* The part of C16 that holds: every position but the last-3 averages, and
\* those too when every list present holds 0 or 3 scores.
C16_OutsideLast3 ==
    pc = "feat_done" =>
        /\ Len(features) = 33
        /\ \A k \in (1..33) \ Last3Positions : X_row[k] = features[k]

----------------------------------------------------------------------------
\* A row the claim calls a push: the result is within half a point of the line.
WithinHalfPoint(r) == Abs(r.actual_spread - r.vegas_spread) < PushTolerance

\* test_true_splits.calculate_ats counts the row read in one of its three
\* counters exactly when the game has a line.
TtsSettlesLined ==
    (scorer = "tts" /\ n_read' = n_read + 1) =>
        LET counted == (wins' + losses' + pushes') - (wins + losses + pushes)
        IN  counted = (IF pred'.has_line THEN 1 ELSE 0)

\* train_model.calculate_ats_metrics places a bet on the row read exactly when
\* the game has a line and is no push; a push is settled without a bet.
TmSettlesLined ==
    (scorer = "tm" /\ n_read' = n_read + 1) =>
        LET bet == total_bets' - total_bets
        IN  IF pred'.has_line /\ ~WithinHalfPoint(pred')
            THEN bet = 1 /\ units_won' # units_won
            ELSE bet = 0 /\ units_won' = units_won /\ wins' = wins

\* C17: both scorers leave out exactly the games without a market line; a
\* game with a line, whatever its value, is settled as a win, a loss or a
\* push, and a game without a line is never settled.
C17_Original == [][TtsSettlesLined /\ TmSettlesLined]_vars

\* The scorer of test_true_splits alone does what C17 says.
C17_TtsOnly == [][TtsSettlesLined]_vars

----------------------------------------------------------------------------
\* The seasons of the games the model in use was fitted on in this run; a
\* model that was not fitted in this run has no such record.
FittedInRun(m, calls) == m.origin = "fit" /\ m.fit_no \in 1..Len(calls)

\* The predictions a step appends.
Appended ==
    SubSeq(all_predictions', Len(all_predictions) + 1, Len(all_predictions'))

\* A step that predicts a season uses a model fitted in that step, for that
\* boundary, on games of earlier seasons only.
FreshFitBeforePredicting ==
    Len(all_predictions') > Len(all_predictions) =>
        /\ FittedInRun(model', fit_calls')
        /\ Len(fit_calls') = Len(fit_calls) + 1
        /\ model'.fit_no = Len(fit_calls')
        /\ \A p \in Range(Appended) :
               /\ fit_calls'[model'.fit_no].test_season = p.season
               /\ \A g \in fit_calls'[model'.fit_no].train : g.season < p.season

\* C18: in both walk-forward backtests every season is predicted by a model
\* fitted afresh at that boundary, before the predictions, on games of
\* earlier seasons only.
C18_Original == [][FreshFitBeforePredicting]_vars

\* The walk-forward validation alone does what C18 says.
C18_WalkForwardOnly == [][script = "wf" => FreshFitBeforePredicting]_vars

----------------------------------------------------------------------------
\* The games walk_forward_validate has to predict: those with a line of the
\* seasons 2022 to 2024.
LinedTestGames ==
    {g \in Range(all_games) : g.has_lines /\ g.season \in Range(test_seasons)}

RECURSIVE SumOfResults(_, _, _)
SumOfResults(results, seasons, field) ==
    IF seasons = {} THEN 0
    ELSE LET t == CHOOSE x \in seasons : TRUE
         IN  results[t][field] + SumOfResults(results, seasons \ {t}, field)

WalkForwardFinished == pc = "bt_done" /\ script = "wf"

\* C20: when walk_forward_validate finishes, all_predictions holds exactly one
\* prediction for every game with a line of 2022 to 2024, in the order of
\* the boundaries, each tagged with the season it was predicted in, and the
\* overall wins, losses and pushes are the sums of the per-season ones.
C20_PredictionsAndSums ==
    WalkForwardFinished =>
        /\ Len(all_predictions) = Cardinality(LinedTestGames)
        /\ {p.game_id : p \in Range(all_predictions)}
               = {g.gameId : g \in LinedTestGames}
        /\ \A p \in Range(all_predictions) :
               \E g \in LinedTestGames :
                   g.gameId = p.game_id /\ g.season = p.season
        /\ \A j, k \in 1..Len(all_predictions) :
               j < k => all_predictions[j].season <= all_predictions[k].season
        /\ \A field \in {"wins", "losses", "pushes"} :
               overall_ats[field]
                   = SumOfResults(results_by_season, DOMAIN results_by_season,
                                  field)

\* A finished run on a file that is not in season order, with a game without
\* a line in a test season, and with a win and a push among the results.
C20_Witness ==
    /\ WalkForwardFinished
    /\ all_games[1].season = 2024
    /\ \E g \in Range(all_games) : ~g.has_lines /\ g.season = 2023
    /\ Len(all_predictions) = 3
    /\ overall_ats.wins >= 1
    /\ overall_ats.pushes >= 1

----------------------------------------------------------------------------
EpaTriples == EpaTeams \X EpaSeasons \X EpaWeeks

\* Two different triples have two different cache keys.
KeysApart ==
    \A a, b \in EpaTriples :
        cache_key(a[1], a[2], a[3]) = cache_key(b[1], b[2], b[3]) => a = b

\* The value returned last is the one the computation without the cache
\* returns on the frame loaded now, where that computation returns.
ReturnsUncached ==
    (pc = "epa_returned"
        /\ ~compute_epa_raises(pbp_data, epa_metrics.team,
                               epa_metrics.season, epa_metrics.week))
        => epa_metrics.value
               = compute_epa_metrics(pbp_data.rows, epa_metrics.team,
                                     epa_metrics.season, epa_metrics.week)

\* C19: over any sequence of loads and calculations on one enricher,
\* calculate_team_epa_metrics returns what the computation without the cache
\* returns on the frame loaded at that moment, and two different
\* (team, season, week) triples never share a cache entry.
C19_Original == ReturnsUncached /\ KeysApart

\* The part of C19 that holds: the keys of different triples differ.
C19_KeysApart == KeysApart

----------------------------------------------------------------------------
(* Claims about the confidence backtest.                                   *)

\* The bets of one stored result that are within half a point of the line.
PushBets(res) ==
    SelectSeq(res.bets,
              LAMBDA b : Abs(b.actual_spread - b.vegas_spread) < PushTolerance)

\* C21: in backtest_with_confidence a selected bet on a game whose actual
\* spread is within half a point of the line is a push: it is counted neither
\* as a win nor as a loss and is left out of the win-rate denominator.
C21_Original ==
    \A t \in DOMAIN conf_results :
        LET res == conf_results[t]
            decided == Len(res.bets) - Len(PushBets(res))
        IN  /\ res.wins + res.losses = decided
            /\ \A k \in 1..Len(res.bets) :
                   Abs(res.bets[k].actual_spread - res.bets[k].vegas_spread)
                       < PushTolerance => ~res.bets[k].won
            /\ res.win_rate = IF decided > 0 THEN Div(res.wins, decided)
                              ELSE Num(0)

\* C22: for every threshold with at least one bet the reported roi is the
\* percentage profit / ((wins + losses) * 110) with
\* profit = wins * 100 - losses * 110, the value that
\* walk_forward_validation.calculate_ats_performance reports for the same
\* wins and losses.
C22_Original ==
    \A t \in DOMAIN conf_results :
        LET res == conf_results[t]
        IN  res.total_bets > 0 =>
                res.roi = wf_report(res.wins, res.losses, 0).roi

----------------------------------------------------------------------------
(* Claims about the train/test splits.                                     *)

\* C23: for any game list and test_split = 0.2, split_train_test puts a game
\* in the test set exactly when temporal_train_test_split with test_size 0.2
\* puts it in the test set, so no game the model is evaluated on is a game it
\* was trained on.
C23_SameTestSet ==
    pc = "tpred_split" =>
        /\ \A k \in 1..Len(all_games) :
               (all_games[k] \in Range(test_games))
                   <=> (all_games[k] \in Range(X_test))
        /\ Range(test_games) \cap Range(X_train) = {}

\* Both splits were made of a file that is not in (season, week) order, with
\* games on both sides.
C23_Witness ==
    /\ pc = "tpred_split"
    /\ Len(test_games) >= 1
    /\ Len(X_train) >= 3
    /\ \E a \in 1..Len(all_games) : \E b \in 1..Len(all_games) :
           a < b /\ RowBefore(all_games[b], all_games[a])

----------------------------------------------------------------------------
(* Claims about the matching of ESPN games to odds events.                 *)

\* The NFL team a name stands for.
NflTeam(name) ==
    CASE name = <<"New", "York", "Giants">> -> "NYG"
      [] name = <<"New", "York", "Jets">> -> "NYJ"
      [] name = <<"Dallas", "Cowboys">> -> "DAL"
      [] name \in {<<"Washington">>, <<"Washington", "Commanders">>} -> "WAS"

\* C25: teams_match(a, b) is True only when a and b name the same NFL team
\* (two different teams, also two that share a city name, give False), so
\* find_match never returns the odds event of a different game.
C25_Original ==
    /\ \A a \in EspnNames : \A b \in OddsNames :
           teams_match(a, b) => NflTeam(a) = NflTeam(b)
    /\ pc = "odds_matched" =>
           \A k \in 1..Len(odds_events) :
               odds_events[k].id = event_id =>
                   /\ NflTeam(odds_events[k].home_team)
                          = NflTeam(espn_game.homeTeam)
                   /\ NflTeam(odds_events[k].away_team)
                          = NflTeam(espn_game.awayTeam)


----------------------------------------------------------------------------
(* Claims about the confidence rule of the predictor and of the backtest.  *)

\* The (game, side) pairs predict_game recommends betting.
RecommendedBets ==
    {<<p.game, p.bet_side>> :
        p \in {q \in Range(recommendations.predictions) :
                  q.recommendation = "BET"}}

\* The (game, side) pairs the backtest placed at threshold t.
PlacedBets(t) ==
    {<<b.game, IF b.bet_on = "home" THEN "HOME" ELSE "AWAY">> :
        b \in Range(conf_results[t].bets)}

\* C24: for the same model, games and threshold, the games for which
\* predict_game recommends 'BET', with their side (HOME exactly when the
\* predicted spread is above the Vegas spread, else AWAY), are the bets placed
\* by backtest_with_confidence: a bet exactly when the game has a Vegas spread
\* and abs(predicted - vegas) >= threshold; a game without a spread gets no
\* recommendation.
C24_SameBets ==
    pc = "conf_predicted" =>
        LET t == recommendations.threshold
        IN  /\ RecommendedBets = PlacedBets(t)
            /\ \A k \in 1..Len(test_games) :
                   LET r == test_games[k]
                       p == recommendations.predictions[k]
                   IN  /\ (\E side \in {"HOME", "AWAY"} :
                               <<k, side>> \in PlacedBets(t))
                           <=> (/\ r.has_line
                                /\ Abs(r.predicted_spread - r.vegas_spread)
                                       >= t)
                       /\ <<k, "HOME">> \in PlacedBets(t)
                              => r.predicted_spread > r.vegas_spread
                       /\ <<k, "AWAY">> \in PlacedBets(t)
                              => r.predicted_spread <= r.vegas_spread
                       /\ ~r.has_line => p.recommendation = None

\* The predictor recommended a bet whose confidence is exactly the threshold,
\* passed on another game, and a game had no spread.
C24_Witness ==
    /\ pc = "conf_predicted"
    /\ recommendations.threshold > 0
    /\ \E k \in 1..Len(test_games) :
           /\ recommendations.predictions[k].recommendation = "BET"
           /\ Abs(test_games[k].predicted_spread - test_games[k].vegas_spread)
                  = recommendations.threshold
    /\ \E k \in 1..Len(test_games) : ~test_games[k].has_line

\* C30: for thresholds t1 <= t2 the bets of backtest_with_confidence at t2
\* are among the bets at t1, each with the same side and the same won flag, so
\* total_bets never increases as the threshold increases.
C30_BetsShrinkWithThreshold ==
    \A t1 \in DOMAIN conf_results : \A t2 \in DOMAIN conf_results :
        t1 <= t2 =>
            /\ \A b2 \in Range(conf_results[t2].bets) :
                   \E b1 \in Range(conf_results[t1].bets) :
                       /\ b1.game = b2.game
                       /\ b1.bet_on = b2.bet_on
                       /\ b1.won = b2.won
            /\ conf_results[t2].total_bets <= conf_results[t1].total_bets

\* Two thresholds were run; the higher one kept a bet and dropped another.
C30_Witness ==
    /\ pc = "conf_done"
    /\ \E t1 \in DOMAIN conf_results : \E t2 \in DOMAIN conf_results :
           /\ t1 < t2
           /\ conf_results[t2].total_bets >= 1
           /\ conf_results[t2].total_bets < conf_results[t1].total_bets

----------------------------------------------------------------------------
(* Claims about empty records.                                             *)

\* C29: the ATS aggregation never divides by zero: with wins + losses = 0 the
\* scorers of walk_forward_validation, test_true_splits, fix_ats_calculation
\* and backtest_confidence finish and report win_rate = 0 and roi = 0, and
\* walk_forward_validation.calculate_ats_performance returns None for an empty
\* prediction list.
C29_NoBetsReportZero ==
    /\ (pc = "ats_loop" /\ scorer \in {"wf", "tts", "fix"})
           => ENABLED AtsFinish
    /\ (pc = "ats_done" /\ scorer = "wf" /\ n_read = 0) => report = None
    /\ (/\ pc = "ats_done"
        /\ scorer \in {"wf", "tts", "fix"}
        /\ ~(scorer = "wf" /\ n_read = 0)
        /\ wins + losses = 0)
           => report.win_rate = Num(0) /\ report.roi = Num(0)
    /\ (pc = "conf_start" /\ threshold_pos <= Len(confidence_thresholds))
           => ENABLED threshold_iteration
    /\ \A t \in DOMAIN conf_results :
           conf_results[t].wins + conf_results[t].losses = 0
               => /\ conf_results[t].win_rate = Num(0)
                  /\ conf_results[t].roi = Num(0)

\* A scorer finished a list in which every game was a push.
C29_Witness ==
    /\ pc = "ats_done"
    /\ scorer = "tts"
    /\ n_read >= 2
    /\ pushes = n_read
    /\ report.win_rate = Num(0)

----------------------------------------------------------------------------
(* Claims about the counters of calculate_splits_and_streaks.              *)

\* The processed games in which team t was at home, on the road.
PlayedAtHome(t) == {g \in Processed : g.home = t}

PlayedOnRoad(t) == {g \in Processed : g.away = t}

RECURSIVE SumOverTeams(_, _)
SumOverTeams(field, S) ==
    IF S = {} THEN 0
    ELSE LET t == CHOOSE x \in S : TRUE
         IN  team_history[t][field] + SumOverTeams(field, S \ {t})

\* C26: after any sequence of games, for every team home_wins + home_losses
\* is the number of home games it played and road_wins + road_losses the
\* number of road games; every processed game is credited as exactly one win
\* and one loss, and a game with equal scores as an away win.
C26_OneWinOneLossPerGame ==
    pc \in {"splits_loop", "splits_done"} =>
        /\ \A t \in Teams :
               /\ team_history[t].home_wins + team_history[t].home_losses
                      = Cardinality(PlayedAtHome(t))
               /\ team_history[t].road_wins + team_history[t].road_losses
                      = Cardinality(PlayedOnRoad(t))
               /\ team_history[t].road_wins
                      = Cardinality({g \in PlayedOnRoad(t) :
                                        g.homeScore <= g.awayScore})
               /\ team_history[t].home_losses
                      = Cardinality({g \in PlayedAtHome(t) :
                                        g.homeScore <= g.awayScore})
        /\ SumOverTeams("home_wins", Teams) + SumOverTeams("road_wins", Teams)
               = i
        /\ SumOverTeams("home_losses", Teams)
               + SumOverTeams("road_losses", Teams) = i

\* Two games were processed, one of them with equal scores.
C26_Witness ==
    /\ pc = "splits_done"
    /\ i = 2
    /\ \E g \in Processed :
           /\ g.homeScore = g.awayScore
           /\ team_history[g.away].road_wins >= 1
           /\ team_history[g.home].home_losses >= 1

\* C27: in every state, for every team, streak = 0 exactly when last_result is
\* None, streak > 0 exactly when it is 'W', streak < 0 exactly when it is 'L',
\* and the absolute value of the streak is at most the number of games the
\* team has played.
C27_StreakMatchesLastResult ==
    pc \in {"splits_loop", "splits_done"} =>
        \A t \in Teams :
            /\ team_history[t].streak = 0 <=> team_history[t].last_result = None
            /\ team_history[t].streak > 0 <=> team_history[t].last_result = "W"
            /\ team_history[t].streak < 0 <=> team_history[t].last_result = "L"
            /\ Abs(team_history[t].streak)
                   <= Cardinality(PlayedAtHome(t) \cup PlayedOnRoad(t))

\* A team is on a losing run of three while another has not played.
C27_Witness ==
    /\ pc = "splits_loop"
    /\ \E t \in Teams :
           team_history[t].streak = -3 /\ team_history[t].last_result = "L"
    /\ \E t \in Teams :
           team_history[t].streak = 0 /\ team_history[t].last_result = None
    /\ \E t \in Teams : team_history[t].streak > 0

----------------------------------------------------------------------------
(* Claims about what each scorer settles a game against.                   *)

\* Game k of test_games as a row of its own prediction, line and result.
OwnRow(k) ==
    [predicted_spread |-> test_games[k].predicted_spread,
     vegas_spread |-> test_games[k].vegas_spread,
     actual_spread |-> test_games[k].actual_spread,
     has_line |-> test_games[k].has_line,
     completed |-> test_games[k].completed]

\* The result of game k under the rule of the scorer that ran.
OwnResult(k) ==
    CASE scorer = "tts" -> settle_tts(OwnRow(k))
      [] scorer = "cap" -> settle_cap(OwnRow(k))
      [] scorer = "wf" -> settle_wf(OwnRow(k))

LinedGames == {k \in 1..Len(test_games) : test_games[k].has_line}

\* The games the scorer that ran settles: the games with a line, and in
\* calculate_ats_performance.py those of them whose prediction is completed.
ScoredGames ==
    IF scorer = "cap" THEN {k \in LinedGames : test_games[k].completed}
    ELSE LinedGames

\* Each game of S is counted once, under its own result.
CountedOnce(S) ==
    /\ wins + losses + pushes = Cardinality(S)
    /\ wins = Cardinality({k \in S : OwnResult(k) = "WIN"})
    /\ losses = Cardinality({k \in S : OwnResult(k) = "LOSS"})
    /\ pushes = Cardinality({k \in S : OwnResult(k) = "PUSH"})

====
